---------------------------- MODULE Spec2Model ----------------------------
(***************************************************************************)
(* Repository Indexing & Semantic Retrieval Engine.                        *)
(*                                                                         *)
(* Model of backend/app/services/vector_store.py (chunking, embedding,     *)
(* pgvector store and search), of run_indexing_workflow in                 *)
(* backend/app/services/code_analyser.py and of the ProgressTracker in     *)
(* backend/app/services/progress_tracker.py.                               *)
(*                                                                         *)
(* Specifications:                                                         *)
(*   Spec       the indexing run against the database session              *)
(*   SpecEmbed  embed_texts_openai against the embedding provider          *)
(*   SpecSearch vector_search_project over a stored chunk set              *)
(*   SpecSearchAgain  several searches in a row, failing ones included     *)
(*   SpecChunk  split_text_to_code_chunks over one file                    *)
(*   SpecRows   index_project_chunks_to_pgvector from the file list to the *)
(*              rows it inserts                                            *)
(*   SpecFw     RepositoryAnalyzer._detect_framework over one repository   *)
(*   SpecApi    RepositoryAnalyzer._detect_api_endpoints over one file     *)
(*   SpecScan   the file scanners over one directory tree                  *)
(*   SpecFallback  _fallback_recursive_split_spans over one text           *)
(*   SpecFallbackSteps  the same call, one loop iteration at a time        *)
(***************************************************************************)
EXTENDS Integers, Sequences, FiniteSets, TLC

(***************************************************************************)
(* Bounds of the model.                                                    *)
(***************************************************************************)
\* number of index runs explored
MaxRuns == 2
\* largest number of chunks one file of a run yields
MaxChunksPerFile == 1
\* longest list of texts handed to embed_texts_openai
MaxTexts == 3
\* largest batch_size and max_retries of a call
MaxBatch == 2
MaxRetries == 2
\* largest number of stored chunk rows searched, and largest k of a search
MaxRows == 3
MaxK == 3
\* number of searches made over one stored chunk set
MaxSearches == 2
\* largest number of lines of a file scanned for route declarations
MaxDecls == 6
\* longest file content split, in characters, and largest chunk_chars
MaxLen == 3
MaxChunkChars == 2
\* number of framework detections run on one repository
MaxFwRuns == 2

(***************************************************************************)
(* The indexing run: state.                                                *)
(***************************************************************************)
VARIABLES
    committed,  \* project_code_chunks as committed in Postgres (set of rows)
    work,       \* project_code_chunks as the run's Session sees it (its open transaction)
    aborted,    \* the Session's server transaction is in the failed state
    status,     \* projects.preprocessing_status, committed, per project
    sink,       \* message_type of the project_progress rows delivered in the current run
    pc,         \* position of the current run
    cur,        \* the current run: project, files, tracker, caller
    runs,       \* number of runs started
    result,     \* what the caller of the run got: "none", "success", "raised"
    chunks,     \* the rows the run prepared (local `chunks` / `rows`)
    errored,    \* the step of the current run that raised, "" when none did
    errorEmitted, \* the current run called progress_tracker.emit_error
    stored,     \* the current run's chunk-store step has committed
    prior,      \* the project's committed rows when the current run started
    failedRuns, \* the projects one of whose runs raised in some step
    prevSame,   \* the run before the current one was over the same project and files
    prevFailed, \* ... and a step of it raised
    prevBefore, \* ... and these were the project's committed rows when it started
    \* embed_texts_openai
    texts,      \* argument texts
    batch_size, \* argument batch_size
    max_retries, \* argument max_retries
    out,        \* local out: the vectors collected so far
    i,          \* local i: offset of the current batch
    attempt,    \* local attempt: failures of the current batch
    epc,        \* position: "idle", "loop", "returned", "raised"
    ret,        \* the list the call returned
    failedCalls, \* provider calls of the current batch that failed
    shuffled,   \* some provider response listed its items out of order
    \* vector_search_project
    store,      \* project_code_chunks as the search reads it (list of rows, id = position)
    search,     \* the arguments: project_id, qvec, k, path_prefix
    found,      \* the list of ChunkRow the call returned
    spc,        \* position: "idle", "returned", "raised"
    searchErr,  \* the step of the last search that raised: "", "embed", "query"
    response,   \* what search_project_code answered: status and results
    searches,   \* number of searches made
    \* split_text_to_code_chunks
    fpath,      \* argument path
    content,    \* argument content (list of characters)
    chunk_chars, \* argument chunk_chars
    chunk_overlap, \* argument chunk_overlap
    spans,      \* the spans the chosen splitter produced (spans / spans2)
    fileChunks, \* the list of chunk dicts returned
    parsed,     \* the syntax tree the chunks were taken from, if any
    tier1_spans,      \* the spans _extract_tree_sitter_chunks returned to the call
    cpc,        \* position: "idle", "returned"
    \* index_project_chunks_to_pgvector, from the files to the rows
    rowsPid,    \* argument project_id
    filesArg,   \* argument files (list of file dicts)
    filePos,    \* loop position in code_files (1-based, as idx)
    allChunks,  \* local chunks: the chunk dicts of the files read so far
    files_read, \* local files_read
    insertRows, \* local rows: the tuples handed to execute_values
    embedCalls, \* calls of embed_texts_openai made by the run
    stats,      \* the dict returned
    rpc,        \* position: "idle", "loop", "prepared", "returned", "raised"
    \* RepositoryAnalyzer._detect_framework
    repo,       \* the project directory: file names, package.json, code files
    listing,    \* the code files in the order rglob listed them in this run
    fwScores,   \* the score each framework reached
    framework,  \* the value returned ("None" for None)
    prevFw,     \* the scores and the framework of the run before
    fwRuns,     \* number of detections run on the repository
    fpc,        \* position: "idle", "returned"
    \* RepositoryAnalyzer._detect_api_endpoints and the result of analyze
    srcFile,    \* the code file of files_map: readable, and its lines
    endpoints,  \* local endpoints
    api_endpoints_count,   \* analysis_result['api_endpoints_count']
    api_endpoints_details, \* analysis_result['api_endpoints_details']
    apc,        \* position: "idle", "returned"
    \* ---- the file scanners ----
    project_path,  \* the parts of the root path handed to the scanner
    path_exists,   \* whether that path exists
    entries,       \* what rglob('*') yields: the entries below the root
    all_files,     \* the relative paths the scanner returned
    scanner,       \* which scanner ran: "", "fetch_repo_metadata_node", "_scan_project_files"
    scpc,          \* position: "idle", "returned"
    \* ---- _fallback_recursive_split_spans ----
    fb_content,    \* argument content
    fb_separators, \* argument separators
    fb_chunk_size, \* argument chunk_size
    fb_chunk_overlap, \* argument chunk_overlap
    fb_spans,      \* the list of spans returned
    fb_stack,      \* the calls of split_recursive in progress, innermost last
    fbpc,          \* position: "idle", "running", "returned"
    fmt_chunks,    \* format_chunks_for_prompt: argument chunks
    fmt_max_chars, \* argument max_chars
    fmt_out,       \* the string returned
    fmtpc,         \* position: "idle", "called", "returned"
    reader         \* the last SELECT of another Session: what it asked and saw

idxVars == <<committed, work, aborted, status, sink, pc, cur, runs, result,
             chunks, errored, errorEmitted, stored, prior, failedRuns,
             prevSame, prevFailed, prevBefore>>

embVars == <<texts, batch_size, max_retries, out, i, attempt, epc, ret,
             failedCalls, shuffled>>

srchVars == <<store, search, found, spc, searchErr, response, searches>>

chunkVars == <<fpath, content, chunk_chars, chunk_overlap, spans, fileChunks,
               parsed, tier1_spans, cpc>>

rowsVars == <<rowsPid, filesArg, filePos, allChunks, files_read, insertRows,
              embedCalls, stats, rpc>>

fwVars == <<repo, listing, fwScores, framework, prevFw, fwRuns, fpc>>

apiVars == <<srcFile, endpoints, api_endpoints_count, api_endpoints_details, apc>>
scanVars == <<project_path, path_exists, entries, all_files, scanner, scpc>>
fbVars == <<fb_content, fb_separators, fb_chunk_size, fb_chunk_overlap, fb_spans,
           fb_stack, fbpc>>
fmtVars == <<fmt_chunks, fmt_max_chars, fmt_out, fmtpc>>
rdVars == <<reader>>

vars == <<idxVars, embVars, srchVars, chunkVars, rowsVars, fwVars, apiVars, scanVars, fbVars, fmtVars, rdVars>>

\* the variables of the other specifications, which an index run leaves alone
otherVars == <<embVars, srchVars, chunkVars, rowsVars, fwVars, apiVars, scanVars, fbVars, fmtVars, rdVars>>

\* project ids (projects.id) and relative paths of scanned files
Projects == {1, 2}
Paths == {"a.py", "b.md"}

\* the callers of the index step: run_indexing_workflow (from create_project),
\* and the main loop of scripts/reindex_pgvector.py
Callers == {"workflow", "script"}

\* a files argument: the number of chunks each path yields (0: the file is
\* absent, unreadable, blank or yields no chunk)
FileLists == [Paths -> 0..MaxChunksPerFile]

NoRun == [pid |-> 1, files |-> [x \in Paths |-> 0], tracker |-> FALSE, caller |-> "script"]

\* no SELECT of another Session yet
NoRead == [pid |-> 1, rows |-> {}, run |-> 0, pending |-> FALSE]

\* rows of project p in table t
RowsOf(t, p) == {r \in t : r.pid = p}

\* index_project_chunks_to_pgvector, lines 677-701 and 740-753: the rows of
\* one run, one per chunk, numbered per file; gen stands for the row's
\* BIGSERIAL id / created_at, which tell the rows of two runs apart
BuildRows(p, files, g) ==
    {[pid |-> p, path |-> xc[1], chunk_index |-> xc[2], gen |-> g] :
        xc \in {xi \in Paths \X (0..MaxChunksPerFile) : xi[2] < files[xi[1]]}}

\* deletes nothing
keep_project_chunks(t, p) == t

\* deletes the rows of every project
delete_all_chunks(t, p) == {}

\* delete_project_chunks: DELETE FROM project_code_chunks WHERE project_id = p
delete_project_chunks(t, p) == t \ RowsOf(t, p)

(***************************************************************************)
(* ProgressTracker._emit_progress: db.add(progress); db.commit(), and on   *)
(* any exception db.rollback().  The commit is the commit of the shared    *)
(* Session, so it makes durable whatever the run has pending; it fails     *)
(* when the transaction is in the failed state or when the sink cannot be  *)
(* written (deliver = FALSE).                                              *)
(***************************************************************************)
EmitDelivered(deliver) == deliver /\ ~aborted

EmitProgress(kind, deliver) ==
    /\ committed' = IF EmitDelivered(deliver) THEN work ELSE committed
    /\ work' = IF EmitDelivered(deliver) THEN work ELSE committed
    /\ aborted' = FALSE
    /\ sink' = IF EmitDelivered(deliver) THEN sink \cup {kind} ELSE sink

\* a call of a tracker method when progress_tracker may be None
MaybeEmit(kind, deliver) ==
    IF cur.tracker
    THEN EmitProgress(kind, deliver)
    ELSE UNCHANGED <<committed, work, aborted, sink>>

IdxInit ==
    /\ committed = {}
    /\ work = {}
    /\ aborted = FALSE
    /\ status = [p \in Projects |-> "processing"]
    /\ sink = {}
    /\ pc = "idle"
    /\ cur = NoRun
    /\ runs = 0
    /\ result = "none"
    /\ chunks = {}
    /\ errored = ""
    /\ errorEmitted = FALSE
    /\ stored = FALSE
    /\ prior = {}
    /\ failedRuns = {}
    /\ prevSame = FALSE
    /\ prevFailed = FALSE
    /\ prevBefore = {}

\* no call of embed_texts_openai is in progress
EmbIdle ==
    /\ texts = <<>>
    /\ batch_size = 1
    /\ max_retries = 0
    /\ out = <<>>
    /\ i = 0
    /\ attempt = 0
    /\ epc = "idle"
    /\ ret = <<>>
    /\ failedCalls = 0
    /\ shuffled = FALSE

\* no search is in progress, over an empty table
NoSearch == [project_id |-> 1, qvec |-> <<0, 0>>, k |-> 1, path_prefix |-> <<>>]

NoResponse == [status |-> 0, results |-> <<>>]

SrchIdle ==
    /\ store = <<>>
    /\ search = NoSearch
    /\ found = <<>>
    /\ spc = "idle"
    /\ searchErr = ""
    /\ response = NoResponse
    /\ searches = 0

\* no file is being split
ChunkIdle ==
    /\ fpath = "a.py"
    /\ content = <<>>
    /\ chunk_chars = 1
    /\ chunk_overlap = 0
    /\ spans = <<>>
    /\ fileChunks = <<>>
    /\ parsed = <<>>
    /\ tier1_spans = <<>>
    /\ cpc = "idle"

\* no run of the chunk-to-rows part is in progress
NoStats == [success |-> FALSE, files_indexed |-> 0, chunks_written |-> 0]

RowsIdle ==
    /\ rowsPid = 1
    /\ filesArg = <<>>
    /\ filePos = 1
    /\ allChunks = <<>>
    /\ files_read = 0
    /\ insertRows = <<>>
    /\ embedCalls = 0
    /\ stats = NoStats
    /\ rpc = "idle"

\* the framework names, in the order of FRAMEWORK_PATTERNS
Frameworks ==
    <<"fastapi", "flask", "django", "react", "nextjs", "vue", "angular", "express",
      "spring-boot", "laravel">>

FrameworkNames == {Frameworks[n] : n \in 1..Len(Frameworks)}

\* no detection has run
NoDetection == [scores |-> [fw \in FrameworkNames |-> 0], framework |-> "None"]

NoRepo == [names |-> {}, pkg |-> [state |-> "absent", deps |-> {}], code |-> <<>>]

\* no framework detection is in progress
FwIdle ==
    /\ repo = NoRepo
    /\ listing = <<>>
    /\ fwScores = [fw \in FrameworkNames |-> 0]
    /\ framework = "None"
    /\ prevFw = NoDetection
    /\ fwRuns = 0
    /\ fpc = "idle"

\* no endpoint detection is in progress
ApiIdle ==
    /\ srcFile = [readable |-> TRUE, lines |-> <<>>]
    /\ endpoints = <<>>
    /\ api_endpoints_count = 0
    /\ api_endpoints_details = <<>>
    /\ apc = "idle"

ScanIdle ==
    /\ project_path = <<>>
    /\ path_exists = FALSE
    /\ entries = {}
    /\ all_files = {}
    /\ scanner = ""
    /\ scpc = "idle"

FbIdle ==
    /\ fb_content = <<>>
    /\ fb_separators = <<>>
    /\ fb_chunk_size = 1
    /\ fb_chunk_overlap = 0
    /\ fb_spans = <<>>
    /\ fb_stack = <<>>
    /\ fbpc = "idle"
FmtIdle ==
    /\ fmt_chunks = <<>>
    /\ fmt_max_chars = 0
    /\ fmt_out = <<>>
    /\ fmtpc = "idle"
RdIdle == reader = NoRead

Init == IdxInit /\ EmbIdle /\ SrchIdle /\ ChunkIdle /\ RowsIdle /\ FwIdle /\ ApiIdle /\ ScanIdle /\ FbIdle /\ FmtIdle /\ RdIdle

(***************************************************************************)
(* The indexing run: steps.                                                *)
(***************************************************************************)
\* create_project lines 272-284 (tracker, run_indexing_workflow lines 781-787)
\* or reindex_pgvector.main lines 164-177
StartRun ==
    /\ pc = "idle"
    /\ runs < MaxRuns
    /\ \E p \in Projects, f \in FileLists, c \in Callers, t \in BOOLEAN :
        /\ (c = "script" => ~t)
        /\ cur' = [pid |-> p, files |-> f, tracker |-> t, caller |-> c]
        /\ pc' = IF c = "workflow" THEN "analysis" ELSE "chunk"
    /\ runs' = runs + 1
    /\ result' = "none"
    /\ sink' = {}
    /\ chunks' = {}
    /\ errored' = ""
    /\ errorEmitted' = FALSE
    /\ stored' = FALSE
    /\ prior' = RowsOf(committed, cur'.pid)
    /\ prevSame' = (runs >= 1 /\ cur'.pid = cur.pid /\ cur'.files = cur.files)
    /\ prevFailed' = (prevSame' /\ errored # "")
    /\ prevBefore' = IF prevSame' THEN prior ELSE {}
    /\ UNCHANGED <<committed, work, aborted, status, failedRuns>>
    /\ UNCHANGED otherVars

\* run_indexing_workflow lines 784-833: analysis and workflow nodes succeed
AnalyzeOk ==
    /\ pc = "analysis"
    /\ \E d \in BOOLEAN : MaybeEmit("info", d)
    /\ pc' = "store_analysis"
    /\ UNCHANGED <<status, cur, runs, result, chunks, errored, errorEmitted, stored>>
    /\ UNCHANGED <<prior, failedRuns, prevSame, prevFailed, prevBefore>>
    /\ UNCHANGED otherVars

\* run_indexing_workflow lines 784-833: analysis or a workflow node raises
AnalyzeFail ==
    /\ pc = "analysis"
    /\ errored' = "analysis"
    /\ failedRuns' = failedRuns \cup {cur.pid}
    /\ UNCHANGED <<prior, prevSame, prevFailed, prevBefore>>
    /\ pc' = "handler"
    /\ UNCHANGED <<committed, work, aborted, status, sink, cur, runs, result,
                   chunks, errorEmitted, stored>>
    /\ UNCHANGED otherVars

\* run_indexing_workflow lines 835-857: the analysis columns and
\* preprocessing_status = 'completed' are written and committed
StoreAnalysis ==
    /\ pc = "store_analysis"
    /\ status' = [status EXCEPT ![cur.pid] = "completed"]
    /\ committed' = work
    /\ pc' = "chunk"
    /\ UNCHANGED <<work, aborted, sink, cur, runs, result, chunks, errored,
                   errorEmitted, stored>>
    /\ UNCHANGED <<prior, failedRuns, prevSame, prevFailed, prevBefore>>
    /\ UNCHANGED otherVars

\* index_project_chunks_to_pgvector lines 663-707: read and split the files;
\* with no chunk the function returns success before touching the table
ChunkFiles ==
    /\ pc = "chunk"
    /\ chunks' = BuildRows(cur.pid, cur.files, runs)
    /\ \E d \in BOOLEAN : MaybeEmit("info", d)
    /\ IF chunks' = {}
       THEN /\ pc' = "index_returned"
            /\ stored' = TRUE
       ELSE /\ pc' = "probe"
            /\ UNCHANGED stored
    /\ UNCHANGED <<status, cur, runs, result, errored, errorEmitted>>
    /\ UNCHANGED <<prior, failedRuns, prevSame, prevFailed, prevBefore>>
    /\ UNCHANGED otherVars

\* lines 709-712: the dimension probe of an unknown model exhausts its retries
DimProbeFail ==
    /\ pc = "probe"
    /\ errored' = "probe"
    /\ failedRuns' = failedRuns \cup {cur.pid}
    /\ UNCHANGED <<prior, prevSame, prevFailed, prevBefore>>
    /\ pc' = "index_raised"
    /\ UNCHANGED <<committed, work, aborted, status, sink, cur, runs, result,
                   chunks, errorEmitted, stored>>
    /\ UNCHANGED otherVars

\* lines 715-721: ensure the schema, then delete the project's rows in the
\* Session's transaction (not committed here)
DeleteOld ==
    /\ pc = "probe"
    /\ work' = delete_project_chunks(work, cur.pid)
    /\ pc' = "embed"
    /\ UNCHANGED <<committed, aborted, status, sink, cur, runs, result, chunks,
                   errored, errorEmitted, stored>>
    /\ UNCHANGED <<prior, failedRuns, prevSame, prevFailed, prevBefore>>
    /\ UNCHANGED otherVars

\* lines 723-732: every batch is embedded
EmbedOk ==
    /\ pc = "embed"
    /\ pc' = "insert"
    /\ UNCHANGED <<committed, work, aborted, status, sink, cur, runs, result,
                   chunks, errored, errorEmitted, stored>>
    /\ UNCHANGED <<prior, failedRuns, prevSame, prevFailed, prevBefore>>
    /\ UNCHANGED otherVars

\* line 726: embed_texts_openai raises after its retries
EmbedFail ==
    /\ pc = "embed"
    /\ errored' = "embed"
    /\ failedRuns' = failedRuns \cup {cur.pid}
    /\ UNCHANGED <<prior, prevSame, prevFailed, prevBefore>>
    /\ pc' = "index_raised"
    /\ UNCHANGED <<committed, work, aborted, status, sink, cur, runs, result,
                   chunks, errorEmitted, stored>>
    /\ UNCHANGED otherVars

\* lines 755-767: execute_values inserts the rows, db.commit() commits the
\* delete and the insert together
InsertOk ==
    /\ pc = "insert"
    /\ work' = work \cup chunks
    /\ committed' = work'
    /\ stored' = TRUE
    /\ pc' = "index_returned"
    /\ UNCHANGED <<aborted, status, sink, cur, runs, result, chunks, errored,
                   errorEmitted>>
    /\ UNCHANGED <<prior, failedRuns, prevSame, prevFailed, prevBefore>>
    /\ UNCHANGED otherVars

\* lines 759-766: execute_values raises.  Either the server rejected the
\* statement, which leaves the transaction in the failed state, or psycopg2
\* raised while adapting the rows (a NUL character in a content), before
\* anything was sent, which leaves the transaction open with the delete in it.
InsertFail ==
    /\ pc = "insert"
    /\ \E kind \in {"server", "client"} :
        aborted' = (kind = "server")
    /\ errored' = "insert"
    /\ failedRuns' = failedRuns \cup {cur.pid}
    /\ UNCHANGED <<prior, prevSame, prevFailed, prevBefore>>
    /\ pc' = "index_raised"
    /\ UNCHANGED <<committed, work, status, sink, cur, runs, result, chunks,
                   errorEmitted, stored>>
    /\ UNCHANGED otherVars

\* the exception of the index step reaches its caller:
\* run_indexing_workflow lines 875-877 log it and go on;
\* reindex_pgvector.main lines 184-185 let it through and close the Session
IndexRaised ==
    /\ pc = "index_raised"
    /\ IF cur.caller = "workflow"
       THEN /\ pc' = "complete"
            /\ UNCHANGED <<work, aborted, result>>
       ELSE /\ work' = committed
            /\ aborted' = FALSE
            /\ result' = "raised"
            /\ pc' = "idle"
    /\ UNCHANGED <<committed, status, sink, cur, runs, chunks, errored,
                   errorEmitted, stored>>
    /\ UNCHANGED <<prior, failedRuns, prevSame, prevFailed, prevBefore>>
    /\ UNCHANGED otherVars

\* the index step returned its statistics
IndexReturned ==
    /\ pc = "index_returned"
    /\ IF cur.caller = "workflow"
       THEN /\ pc' = "complete"
            /\ UNCHANGED result
       ELSE /\ result' = "success"
            /\ pc' = "idle"
    /\ UNCHANGED <<committed, work, aborted, status, sink, cur, runs, chunks,
                   errored, errorEmitted, stored>>
    /\ UNCHANGED <<prior, failedRuns, prevSame, prevFailed, prevBefore>>
    /\ UNCHANGED otherVars

\* run_indexing_workflow lines 879-894: progress_tracker.complete(...) and
\* the success result
Complete ==
    /\ pc = "complete"
    /\ \E d \in BOOLEAN : MaybeEmit("success", d)
    /\ result' = "success"
    /\ pc' = "returned"
    /\ UNCHANGED <<status, cur, runs, chunks, errored, errorEmitted, stored>>
    /\ UNCHANGED <<prior, failedRuns, prevSame, prevFailed, prevBefore>>
    /\ UNCHANGED otherVars

\* run_indexing_workflow lines 896-908: emit the error, mark the project
\* failed, commit, re-raise
Handler ==
    /\ pc = "handler"
    /\ \E d \in BOOLEAN :
        /\ sink' = IF cur.tracker /\ d THEN sink \cup {"error"} ELSE sink
    /\ errorEmitted' = cur.tracker
    /\ status' = [status EXCEPT ![cur.pid] = "failed"]
    /\ committed' = work
    /\ result' = "raised"
    /\ pc' = "returned"
    /\ UNCHANGED <<work, aborted, cur, runs, chunks, errored, stored>>
    /\ UNCHANGED <<prior, failedRuns, prevSame, prevFailed, prevBefore>>
    /\ UNCHANGED otherVars

\* db/session.py get_db lines 42-43: the request's Session is closed, which
\* rolls back what it left uncommitted
CloseSession ==
    /\ pc = "returned"
    /\ work' = committed
    /\ aborted' = FALSE
    /\ pc' = "idle"
    /\ UNCHANGED <<committed, status, sink, cur, runs, result, chunks, errored,
                   errorEmitted, stored>>
    /\ UNCHANGED <<prior, failedRuns, prevSame, prevFailed, prevBefore>>
    /\ UNCHANGED otherVars

Next ==
    \/ StartRun
    \/ AnalyzeOk
    \/ AnalyzeFail
    \/ StoreAnalysis
    \/ ChunkFiles
    \/ DimProbeFail
    \/ DeleteOld
    \/ EmbedOk
    \/ EmbedFail
    \/ InsertOk
    \/ InsertFail
    \/ IndexRaised
    \/ IndexReturned
    \/ Complete
    \/ Handler
    \/ CloseSession

Spec == Init /\ [][Next]_vars

(***************************************************************************)
(* Claims about the indexing run (checked under Spec).                     *)
(***************************************************************************)
\* the current run has ended: its caller has the result or the exception
RunEnded == runs >= 1 /\ pc \in {"returned", "idle"}

\* C1: after any sequence of successful index runs of one project, also a
\* run whose file list yields no chunks, the stored rows of the project are
\* exactly the rows of the last run: no row of an earlier run remains.
C1_FullReplace ==
    (RunEnded /\ result = "success" /\ errored = "" /\ cur.pid \notin failedRuns)
        => RowsOf(committed, cur.pid) = chunks

\* C2: when the embedding of the chunks fails after its retries in a reindex
\* of a project that has committed rows, then once the workflow has ended,
\* with or without a progress tracker on the same session, every row
\* committed before the run is still there.
C2_EmbedFailureKeepsPrior ==
    (RunEnded /\ cur.caller = "workflow" /\ errored = "embed" /\ prior # {})
        => prior \subseteq committed

\* C3: the delete of the prior rows and the bulk insert of the new rows take
\* effect together or not at all: when the bulk insert fails, no row of the
\* new generation is committed and the prior committed rows are untouched.
C3_InsertFailureAtomic ==
    (errored = "insert") => RowsOf(committed, cur.pid) = prior

\* C4: when a step of a run of the workflow errors (the embedding retries
\* exhausted and a failed bulk insert included), the run ends Failed:
\* preprocessing_status is 'failed', the caller gets the error and an error
\* is emitted to the progress sink; the run is never reported successful.
C4_ErrorEndsFailed ==
    (RunEnded /\ cur.caller = "workflow" /\ errored # "")
        => /\ status[cur.pid] = "failed"
           /\ result = "raised"
           /\ (cur.tracker => errorEmitted)

\* C5: preprocessing_status becomes 'completed' only when the analysis and
\* the chunk rows of the run are committed: the transition to Completed
\* never precedes the commit of the Store step.
C5_CompletedAfterStore ==
    [][\A p \in Projects :
          (status[p] # "completed" /\ status'[p] = "completed") => stored']_vars

\* a step of the current run in which the tracker emits a progress update:
\* start_stage / update_file_progress / milestone_complete / complete
EmitStep == cur.tracker /\ pc \in {"analysis", "chunk", "complete"} /\ pc' # pc

\* C17: a failure to persist a progress update never changes the run's
\* outcome: after every emitting step the committed rows are the ones a
\* delivered update leaves, that is the rows the Session held at the step.
C17_ProgressFailureHarmless ==
    [][(EmitStep /\ ~aborted) => committed' = work]_vars

\* a chunk row without its id / created_at: what the files determine
RowData(r) == [path |-> r.path, chunk_index |-> r.chunk_index]

RowDataOf(t) == {RowData(r) : r \in t}

\* the current run has ended and none of its steps raised
RunSucceeded == RunEnded /\ result = "success" /\ errored = ""

\* what a successful run that prepared the rows cs leaves of a project whose
\* rows were before: its own rows, or the rows it found when it has none
LeftBySuccess(before, cs) == IF cs # {} THEN RowDataOf(cs) ELSE RowDataOf(before)

Max(a, b) == IF a > b THEN a ELSE b

Min(a, b) == IF a < b THEN a ELSE b

\* every list of at most n elements of S
SeqsUpTo(S, n) == UNION {[1..m -> S] : m \in 0..n}

\* str.strip() strips the whitespace characters
IsSpace(c) == c \in {" ", "\n"}

\* Python's text[s:e] for any integers s, e
PyIndex(n, len) == IF n < 0 THEN Max(n + len, 0) ELSE Min(n, len)

PySlice(text, s, e) ==
    SubSeq(text, PyIndex(s, Len(text)) + 1, PyIndex(e, Len(text)))

RECURSIVE LStrip(_)
LStrip(t) == IF t # <<>> /\ IsSpace(Head(t)) THEN LStrip(Tail(t)) ELSE t

RECURSIVE RStrip(_)
RStrip(t) ==
    IF t # <<>> /\ IsSpace(t[Len(t)]) THEN RStrip(SubSeq(t, 1, Len(t) - 1)) ELSE t

Strip(t) == RStrip(LStrip(t))

\* sep occurs in text at 0-based offset pos
OccursAt(text, sep, pos) ==
    /\ pos + Len(sep) <= Len(text)
    /\ \A n \in 1..Len(sep) : text[pos + n] = sep[n]

\* sep in text
Contains(text, sep) == \E pos \in 0..Len(text) : OccursAt(text, sep, pos)

\* text.find(sep): the first offset where sep occurs (sep occurs in text)
Find(text, sep) ==
    CHOOSE pos \in 0..Len(text) :
        /\ OccursAt(text, sep, pos)
        /\ \A q \in 0..pos - 1 : ~OccursAt(text, sep, q)

\* text.split(sep) for a non-empty sep
RECURSIVE PySplit(_, _)
PySplit(text, sep) ==
    IF ~Contains(text, sep) THEN <<text>>
    ELSE LET pos == Find(text, sep) IN
         <<SubSeq(text, 1, pos)>>
             \o PySplit(SubSeq(text, pos + Len(sep) + 1, Len(text)), sep)

\* _sha256_text: the hash stands for the text it is the hash of
Sha256(t) == <<"sha256">> \o t

(***************************************************************************)
(* embed_texts_openai (vector_store.py lines 593-630).                     *)
(***************************************************************************)
\* the texts a caller embeds, and the vector the provider computes for each
TextIds == {"a", "b"}
Embedding(t) == IF t = "a" THEN <<1, 0>> ELSE <<0, 1>>

\* line 609: batch = list(texts[i : i + batch_size])
Batch(ts, off, bs) == SubSeq(ts, off + 1, Min(off + bs, Len(ts)))

\* the provider's answer to one batch: one item per input, labelled with the
\* input's position in the batch, listed in the order perm
ProviderData(batch, perm) ==
    [j \in 1..Len(batch) |->
        [index |-> perm[j] - 1, embedding |-> Embedding(batch[perm[j]])]]

Perms(n) == {f \in [1..n -> 1..n] : \A a, b \in 1..n : a # b => f[a] # f[b]}

\* insert item d into the list s, which is sorted by index, after the items
\* whose index is not larger (sorted() is stable)
RECURSIVE InsertByIndex(_, _)
InsertByIndex(s, d) ==
    IF s = <<>> THEN <<d>>
    ELSE IF d.index < Head(s).index THEN <<d>> \o s
    ELSE <<Head(s)>> \o InsertByIndex(Tail(s), d)

RECURSIVE SortFrom(_, _)
SortFrom(acc, s) ==
    IF s = <<>> THEN acc ELSE SortFrom(InsertByIndex(acc, Head(s)), Tail(s))

\* the response's items taken in the order the provider listed them
ProviderOrder(data) == data

\* line 615: data = sorted(resp.data, key=lambda d: d.index)
SortedByIndex(data) == SortFrom(<<>>, data)

\* line 620: if attempt > max_retries: raise
RetriesExhaustedEarly(a, m) == a >= m

RetriesExhausted(a, m) == a > m

\* a call starts: lines 601-607
EmbedStart ==
    /\ epc = "idle"
    /\ \E ts \in SeqsUpTo(TextIds, MaxTexts), bs \in 1..MaxBatch, mr \in 0..MaxRetries :
        /\ texts' = ts
        /\ batch_size' = bs
        /\ max_retries' = mr
        /\ IF ts = <<>>
           THEN epc' = "returned"
           ELSE epc' = "loop"
    /\ out' = <<>>
    /\ i' = 0
    /\ attempt' = 0
    /\ ret' = <<>>
    /\ failedCalls' = 0
    /\ shuffled' = FALSE
    /\ UNCHANGED <<idxVars, srchVars, chunkVars, rowsVars, fwVars, apiVars, scanVars, fbVars, fmtVars, rdVars>>

\* lines 608-617 and 625: the provider answers the batch, in some order
ProviderAnswers ==
    /\ epc = "loop"
    /\ i < Len(texts)
    /\ LET batch == Batch(texts, i, batch_size) IN
       \E perm \in Perms(Len(batch)) :
          LET data == SortedByIndex(ProviderData(batch, perm)) IN
          /\ out' = out \o [j \in 1..Len(data) |-> data[j].embedding]
          /\ shuffled' = (shuffled \/ \E j \in 1..Len(batch) : perm[j] # j)
    /\ i' = i + batch_size
    /\ attempt' = 0
    /\ failedCalls' = 0
    /\ UNCHANGED <<texts, batch_size, max_retries, epc, ret>>
    /\ UNCHANGED <<idxVars, srchVars, chunkVars, rowsVars, fwVars, apiVars, scanVars, fbVars, fmtVars, rdVars>>

\* lines 618-624: the provider call raises; retry after the backoff, or
\* re-raise once attempt exceeds max_retries
ProviderFails ==
    /\ epc = "loop"
    /\ i < Len(texts)
    /\ attempt' = attempt + 1
    /\ failedCalls' = failedCalls + 1
    /\ epc' = IF RetriesExhausted(attempt', max_retries) THEN "raised" ELSE "loop"
    /\ UNCHANGED <<texts, batch_size, max_retries, out, i, ret, shuffled>>
    /\ UNCHANGED <<idxVars, srchVars, chunkVars, rowsVars, fwVars, apiVars, scanVars, fbVars, fmtVars, rdVars>>

\* lines 626-630: the loop is over, return out
EmbedReturn ==
    /\ epc = "loop"
    /\ i >= Len(texts)
    /\ ret' = out
    /\ epc' = "returned"
    /\ UNCHANGED <<texts, batch_size, max_retries, out, i, attempt, failedCalls,
                   shuffled>>
    /\ UNCHANGED <<idxVars, srchVars, chunkVars, rowsVars, fwVars, apiVars, scanVars, fbVars, fmtVars, rdVars>>

EmbNext ==
    \/ EmbedStart
    \/ ProviderAnswers
    \/ ProviderFails
    \/ EmbedReturn

SpecEmbed == Init /\ [][EmbNext]_vars

\* C6: when embed_texts_openai returns, the result is as long as the input
\* and element j is the vector the provider computed for input text j, in
\* whatever order the provider listed the items of each batch.
C6_EmbedOrderPreserved ==
    (epc = "returned") =>
        /\ Len(ret) = Len(texts)
        /\ \A j \in 1..Len(texts) : ret[j] = Embedding(texts[j])

\* a call returned a list of several distinct texts, embedded in more than
\* one batch, one of them answered out of order
C6_Witness ==
    /\ epc = "returned"
    /\ shuffled
    /\ Len(texts) > batch_size
    /\ \E j, j2 \in 1..Len(texts) : texts[j] # texts[j2]

\* C7: a failed provider call of a batch is retried up to max_retries times;
\* the call fails only when one batch failed on its first call and on all
\* max_retries retries, and then it returns no vector, not even those of the
\* batches that succeeded.
C7_RetryThenAbort ==
    /\ failedCalls <= max_retries + 1
    /\ (epc = "raised") <=> (failedCalls = max_retries + 1)
    /\ (epc = "raised") => ret = <<>>

\* a call raised on a later batch, after retries, with vectors of an
\* earlier batch already collected
C7_Witness ==
    /\ epc = "raised"
    /\ max_retries >= 1
    /\ failedCalls = max_retries + 1
    /\ out # <<>>

(***************************************************************************)
(* vector_search_project (vector_store.py lines 782-844).                  *)
(*                                                                         *)
(* Embeddings lie on a grid on which every L2 distance is a whole number   *)
(* ((3,4,5) triangles), so that the distance is computed exactly.  The     *)
(* vectors are the literals the store receives.                            *)
(***************************************************************************)
Vectors == {<<0, 0>>, <<3, 0>>, <<3, 4>>}

\* paths and path prefixes, as lists of characters
SearchPaths == {<<"a", "_", "b">>, <<"a", "x", "b">>}
Prefixes == {<<>>, <<"a", "_">>}

\* the kinds of stored rows, in a fixed order; a table is a list of kinds in
\* non-decreasing order (the order of the rows in the table means nothing)
RowKinds ==
    {[project_id |-> p, path |-> x, embedding |-> e] :
        p \in Projects, x \in SearchPaths, e \in Vectors}

KindRank(r) ==
    (r.project_id - 1) * 100
    + (IF r.path[2] = "_" THEN 0 ELSE 10)
    + r.embedding[1] + r.embedding[2]

Tables ==
    {t \in SeqsUpTo(RowKinds, MaxRows) :
        \A a \in 1..Len(t) - 1 : KindRank(t[a]) <= KindRank(t[a + 1])}

\* exact square root of a perfect square
Isqrt(n) == CHOOSE r \in 0..n : r * r = n

\* pgvector's <-> operator: Euclidean distance
L2Distance(e, q) ==
    Isqrt((e[1] - q[1]) * (e[1] - q[1]) + (e[2] - q[2]) * (e[2] - q[2]))

\* pgvector's <#> operator: negative inner product
NegInnerProduct(e, q) == 0 - (e[1] * q[1] + e[2] * q[2])

\* line 824: ORDER BY embedding <-> (:q)::vector
OrderKey(e, q) == L2Distance(e, q)

\* line 821: (embedding <-> (:q)::vector) AS score
Score(e, q) == L2Distance(e, q)

\* SQL LIKE: _ matches one character, % any run of characters
RECURSIVE Like(_, _)
Like(str, pat) ==
    IF pat = <<>> THEN str = <<>>
    ELSE IF Head(pat) = "%"
         THEN Like(str, Tail(pat)) \/ (str # <<>> /\ Like(Tail(str), pat))
    ELSE /\ str # <<>>
         /\ (Head(pat) = "_" \/ Head(pat) = Head(str))
         /\ Like(Tail(str), Tail(pat))

\* lines 807-815 and 823: the WHERE clause; the prefix filter only when a
\* non-empty path_prefix is given
Where(r, a) ==
    /\ r.project_id = a.project_id
    /\ (a.path_prefix # <<>> => Like(r.path, a.path_prefix \o <<"%">>))

\* the ids (positions) of the rows the WHERE clause keeps
Matching(t, a) == {n \in 1..Len(t) : Where(t[n], a)}

\* the lists of all the ids of S ordered by the ORDER BY key; rows with
\* equal keys come in any order
OrderedIds(t, S, q) ==
    {s \in [1..Cardinality(S) -> S] :
        /\ \A a, b \in 1..Cardinality(S) : a # b => s[a] # s[b]
        /\ \A a \in 1..Cardinality(S) - 1 :
              OrderKey(t[s[a]].embedding, q) <= OrderKey(t[s[a + 1]].embedding, q)}

\* lines 825 and 829-842: LIMIT :k, and one ChunkRow per row fetched
ChunkRows(t, s, a) ==
    [n \in 1..Min(a.k, Len(s)) |->
        [id |-> s[n], path |-> t[s[n]].path,
         score |-> Score(t[s[n]].embedding, a.qvec)]]

SearchArgs ==
    [project_id : Projects, qvec : Vectors, k : 1..MaxK, path_prefix : Prefixes]

\* the stored chunk set one search runs over
SearchInit ==
    /\ store \in Tables
    /\ search = NoSearch
    /\ found = <<>>
    /\ spc = "idle"
    /\ searchErr = ""
    /\ response = NoResponse
    /\ searches = MaxSearches - 1

\* a stored chunk set of at most one row, searched several times
SearchAgainInit ==
    /\ store \in {t \in Tables : Len(t) <= 1}
    /\ search = NoSearch
    /\ found = <<>>
    /\ spc = "idle"
    /\ searchErr = ""
    /\ response = NoResponse
    /\ searches = 0

\* search.py lines 60-80: the rows as dicts, success
OkResponse(rows) == [status |-> 200, results |-> rows]

\* answers an error with an empty result list
EmptyOkResponse == [status |-> 200, results |-> <<>>]

\* search.py lines 82-84: HTTPException(status_code=500)
ErrorResponse == [status |-> 500, results |-> <<>>]

\* lines 791-844: the query is embedded, the store queried, the rows
\* returned; search.py lines 57-80 answer with them
SearchReturns ==
    /\ spc \in {"idle", "returned", "raised"}
    /\ searches < MaxSearches
    /\ \E a \in SearchArgs :
        /\ search' = a
        /\ \E s \in OrderedIds(store, Matching(store, a), a.qvec) :
              found' = ChunkRows(store, s, a)
    /\ spc' = "returned"
    /\ searchErr' = ""
    /\ response' = OkResponse(found')
    /\ searches' = searches + 1
    /\ UNCHANGED store
    /\ UNCHANGED <<idxVars, embVars, chunkVars, rowsVars, fwVars, apiVars, scanVars, fbVars, fmtVars, rdVars>>

\* line 799 or 829: the query embedding (after its retries) or the store
\* query raises; nothing catches it in vector_search_project, so the call
\* returns nothing; search.py lines 82-84 turn it into an error answer
SearchRaises ==
    /\ spc \in {"idle", "returned", "raised"}
    /\ searches < MaxSearches
    /\ \E a \in SearchArgs : search' = a
    /\ \E e \in {"embed", "query"} : searchErr' = e
    /\ found' = <<>>
    /\ spc' = "raised"
    /\ response' = ErrorResponse
    /\ searches' = searches + 1
    /\ UNCHANGED store
    /\ UNCHANGED <<idxVars, embVars, chunkVars, rowsVars, fwVars, apiVars, scanVars, fbVars, fmtVars, rdVars>>

SearchNext ==
    \/ SearchReturns
    \/ SearchRaises

InitSearch == IdxInit /\ EmbIdle /\ SearchInit /\ ChunkIdle /\ RowsIdle /\ FwIdle /\ ApiIdle /\ ScanIdle /\ FbIdle /\ FmtIdle /\ RdIdle

SpecSearch == InitSearch /\ [][SearchNext]_vars

InitSearchAgain ==
    IdxInit /\ EmbIdle /\ SearchAgainInit /\ ChunkIdle /\ RowsIdle /\ FwIdle /\ ApiIdle /\ ScanIdle /\ FbIdle /\ FmtIdle /\ RdIdle

SpecSearchAgain == InitSearchAgain /\ [][SearchNext]_vars

\* the rows of the searched project that the result leaves out
LeftOut == {n \in 1..Len(store) :
              /\ store[n].project_id = search.project_id
              /\ \A m \in 1..Len(found) : found[m].id # n}

\* C8: for every stored chunk set and every k, a search without path prefix
\* returns at most k rows, each with its L2 distance to the query vector,
\* in non-decreasing distance order, and no row of the project that was left
\* out is strictly nearer than a returned row.
C8_SearchNearestK ==
    (spc = "returned" /\ search.path_prefix = <<>>) =>
        /\ Len(found) <= search.k
        /\ \A m \in 1..Len(found) :
              /\ store[found[m].id].project_id = search.project_id
              /\ found[m].score = L2Distance(store[found[m].id].embedding, search.qvec)
        /\ \A m \in 1..Len(found) - 1 : found[m].score <= found[m + 1].score
        /\ \A n \in LeftOut : \A m \in 1..Len(found) :
              L2Distance(store[n].embedding, search.qvec) >= found[m].score

\* a search returned k rows at different distances and left out a row of
\* the project
C8_Witness ==
    /\ spc = "returned"
    /\ search.path_prefix = <<>>
    /\ Len(found) = search.k
    /\ Len(found) >= 2
    /\ found[1].score < found[2].score
    /\ LeftOut # {}

(***************************************************************************)
(* _fallback_recursive_split_spans (vector_store.py lines 377-453).        *)
(* Each operator returns the spans the code appends, in the order it       *)
(* appends them.                                                           *)
(***************************************************************************)
\* a span only for a piece without whitespace at its ends
SpanIfStripped(text, off, a, b) ==
    IF PySlice(text, a, b) # <<>> /\ Strip(PySlice(text, a, b)) = PySlice(text, a, b)
    THEN <<<<off + a, off + b>>>> ELSE <<>>

\* the span (start_offset + a, start_offset + b), appended when the slice is
\* not blank
SpanIfText(text, off, a, b) ==
    IF Strip(PySlice(text, a, b)) # <<>> THEN <<<<off + a, off + b>>>> ELSE <<>>

\* one span for the whole text, whatever its length
CharSplitWhole(text, off, n, size, overlap) == SpanIfText(text, off, 0, Len(text))

\* lines 398-408: character-level split with overlap, from offset n on
RECURSIVE CharSplit(_, _, _, _, _)
CharSplit(text, off, n, size, overlap) ==
    IF n >= Len(text) THEN <<>>
    ELSE LET step == Max(1, size - Max(0, overlap))
             end == Min(Len(text), n + size)
         IN  SpanIfText(text, off, n, end)
                 \o (IF end >= Len(text) THEN <<>>
                     ELSE CharSplit(text, off, n + step, size, overlap))

\* lines 414-420: the (start, end) of every part, its separator included
\* except for the last part
RECURSIVE PieceSpans(_, _, _, _)
PieceSpans(parts, sep, n, cursor) ==
    IF n > Len(parts) THEN <<>>
    ELSE LET piece_end ==
                 cursor + Len(parts[n]) + (IF n < Len(parts) THEN Len(sep) ELSE 0)
         IN  <<<<cursor, piece_end>>>> \o PieceSpans(parts, sep, n + 1, piece_end)

\* seps[seps.index(sep) + 1 :]
RECURSIVE SepsAfter(_, _)
SepsAfter(seps, sep) ==
    IF seps = <<>> THEN <<>>
    ELSE IF Head(seps) = sep THEN Tail(seps)
    ELSE SepsAfter(Tail(seps), sep)

\* the next chunk starts twice "overlap" characters before the end
OverlapTwice(cur_start, cur_end, overlap) ==
    IF overlap > 0 THEN Max(cur_start, cur_end - 2 * overlap) ELSE cur_end

\* lines 431-432: where the next chunk starts, "overlap" characters before the
\* end of the flushed one
OverlapStart(cur_start, cur_end, overlap) ==
    IF overlap > 0 THEN Max(cur_start, cur_end - overlap) ELSE cur_end

RECURSIVE split_recursive(_, _, _, _, _)
RECURSIVE MergePieces(_, _, _, _, _, _, _, _, _, _)
RECURSIVE TrySeps(_, _, _, _, _, _)

\* lines 422-447: merge the pieces from piece n on into chunks of at most
\* size characters; cur_start and cur_end are the chunk being built
MergePieces(text, off, pieces, n, cur_start, cur_end, sep, seps, size, overlap) ==
    IF n > Len(pieces)
    THEN IF cur_end > cur_start THEN SpanIfText(text, off, cur_start, cur_end) ELSE <<>>
    ELSE LET p_start == pieces[n][1]
             p_end == pieces[n][2]
         IN
         IF (p_end - cur_start) <= size
         THEN MergePieces(text, off, pieces, n + 1, cur_start, p_end, sep, seps,
                          size, overlap)
         ELSE LET flushed ==
                      IF cur_end > cur_start
                      THEN SpanIfText(text, off, cur_start, cur_end) ELSE <<>>
                  overlap_start == OverlapStart(cur_start, cur_end, overlap)
              IN
              IF (p_end - overlap_start) <= size
              THEN flushed
                       \o MergePieces(text, off, pieces, n + 1, overlap_start, p_end,
                                      sep, seps, size, overlap)
              ELSE flushed
                       \o split_recursive(PySlice(text, p_start, p_end), off + p_start,
                                          SepsAfter(seps, sep), size, overlap)
                       \o MergePieces(text, off, pieces, n + 1, p_end, p_end,
                                      sep, seps, size, overlap)

\* lines 396-450: the first separator of the list that is "" or occurs in
\* the text decides; with none, the character split
TrySeps(text, off, rest, seps, size, overlap) ==
    IF rest = <<>> THEN split_recursive(text, off, <<<<>>>>, size, overlap)
    ELSE LET sep == Head(rest) IN
         IF sep = <<>> THEN CharSplit(text, off, 0, size, overlap)
         ELSE IF Contains(text, sep)
              THEN LET pieces == PieceSpans(PySplit(text, sep), sep, 1, 0) IN
                   MergePieces(text, off, pieces, 1, pieces[1][1], pieces[1][1],
                               sep, seps, size, overlap)
              ELSE TrySeps(text, off, Tail(rest), seps, size, overlap)

\* lines 390-450
split_recursive(text, off, seps, size, overlap) ==
    IF Len(text) <= size
    THEN SpanIfText(text, off, 0, Len(text))
    ELSE TrySeps(text, off, seps, seps, size, overlap)

\* lines 452-453
fallback_recursive_split_spans(content_, separators, chunk_size, overlap) ==
    split_recursive(content_, 0, separators, chunk_size, overlap)

(***************************************************************************)
(* Tier 1: _extract_tree_sitter_chunks (vector_store.py lines 324-374).    *)
(*                                                                         *)
(* A syntax tree is a list of nodes; node 1 is the root, a node's parent   *)
(* comes before it, a node lies inside its parent and the children of a    *)
(* node follow one another without overlap, as tree-sitter builds them.    *)
(***************************************************************************)
\* the characters of a file: a two-byte letter and whitespace
Alphabet == {"é", " ", "\n"}

\* len(ch.encode("utf-8"))
Utf8Len(ch) == IF ch = "é" THEN 2 ELSE 1

\* _utf8_byte_offsets: entry n + 1 is the byte offset of character n
RECURSIVE utf8_byte_offsets(_)
utf8_byte_offsets(text) ==
    IF text = <<>> THEN <<0>>
    ELSE LET before == utf8_byte_offsets(SubSeq(text, 1, Len(text) - 1)) IN
         Append(before, before[Len(before)] + Utf8Len(text[Len(text)]))

\* bisect.bisect_left on a sorted list: the number of entries below x
BisectLeft(list, x) == Cardinality({n \in 1..Len(list) : list[n] < x})

\* _char_index_from_byte
char_index_from_byte(byte_offsets, byte_pos) ==
    IF byte_pos <= 0 THEN 0
    ELSE IF byte_pos >= byte_offsets[Len(byte_offsets)] THEN Len(byte_offsets) - 1
    ELSE BisectLeft(byte_offsets, byte_pos)

\* _file_ext of the paths of the model
file_ext(path) == IF path = "a.py" THEN ".py" ELSE ".md"

\* _get_chunkable_node_types
get_chunkable_node_types(ext) ==
    IF ext = ".py"
    THEN {"function_definition", "class_definition", "decorated_definition"}
    ELSE {}

\* _get_tree_sitter_parser: the extensions with a parser, when tree-sitter
\* is installed
HasParser(ext) == ext = ".py"

\* the nodes of the given parent whose bytes lie in [lo, hi]; tree-sitter
\* offsets fall on character boundaries
NodesIn(offsets, lo, hi, parent) ==
    {[type |-> ty, start_byte |-> offsets[ab[1]], end_byte |-> offsets[ab[2]],
      parent |-> parent] :
        ty \in {"function_definition", "block"},
        ab \in {x \in (1..Len(offsets)) \X (1..Len(offsets)) :
                  x[1] <= x[2] /\ offsets[x[1]] >= lo /\ offsets[x[2]] <= hi}}

\* the syntax trees a parser may return for a text: the root alone, with one
\* child, with two children, or with a child and a grandchild
Trees(text) ==
    LET offsets == utf8_byte_offsets(text)
        total == offsets[Len(offsets)]
        root == [type |-> "module", start_byte |-> 0, end_byte |-> total, parent |-> 0]
        kids == NodesIn(offsets, 0, total, 1)
    IN  {<<root>>}
        \cup {<<root, c>> : c \in kids}
        \cup {<<root, cd[1], cd[2]>> :
                 cd \in {x \in kids \X kids : x[1].end_byte <= x[2].start_byte}}
        \cup UNION {{<<root, c, g>> : g \in NodesIn(offsets, c.start_byte, c.end_byte, 2)} :
                       c \in kids}

\* node.children: the nodes whose parent is n, in order
ChildrenOf(tree, n) ==
    SelectSeq([m \in 1..Len(tree) |-> m], LAMBDA m : tree[m].parent = n)

RECURSIVE traverse(_, _, _, _, _)
RECURSIVE TraverseEach(_, _, _, _, _)

\* lines 351-359: a node of a chunkable type that is small enough is taken
\* and its children are not visited
traverse(tree, n, target_types, byte_offsets, max_chunk_chars) ==
    LET start_char == char_index_from_byte(byte_offsets, tree[n].start_byte)
        end_char == char_index_from_byte(byte_offsets, tree[n].end_byte)
    IN  IF tree[n].type \in target_types /\ (end_char - start_char) <= max_chunk_chars * 2
        THEN <<<<start_char, end_char, tree[n].type, n>>>>
        ELSE TraverseEach(tree, ChildrenOf(tree, n), target_types, byte_offsets,
                          max_chunk_chars)

TraverseEach(tree, ids, target_types, byte_offsets, max_chunk_chars) ==
    IF ids = <<>> THEN <<>>
    ELSE traverse(tree, Head(ids), target_types, byte_offsets, max_chunk_chars)
             \o TraverseEach(tree, Tail(ids), target_types, byte_offsets, max_chunk_chars)

\* line 362: chunks.sort(key=lambda x: x[0]), a stable sort
RECURSIVE InsertByStart(_, _)
InsertByStart(s, c) ==
    IF s = <<>> THEN <<c>>
    ELSE IF c[1] < Head(s)[1] THEN <<c>> \o s
    ELSE <<Head(s)>> \o InsertByStart(Tail(s), c)

RECURSIVE SortByStart(_, _)
SortByStart(acc, s) ==
    IF s = <<>> THEN acc ELSE SortByStart(InsertByStart(acc, Head(s)), Tail(s))

\* keeps every collected chunk
KeepAll(cs) == [n \in 1..Len(cs) |-> n]

\* lines 364-374: drop the chunks fully contained in another chunk
DropContained(cs) ==
    SelectSeq([n \in 1..Len(cs) |-> n],
              LAMBDA n : ~\E m \in 1..Len(cs) :
                            m # n /\ cs[n][1] >= cs[m][1] /\ cs[n][2] <= cs[m][2])

\* the parser raised: tree.parse failed
ParseError == <<>>

\* lines 343-374 with each chunk tagged by the node it came from
selected_nodes(text, tree, ext, max_chunk_chars) ==
    IF tree = ParseError \/ get_chunkable_node_types(ext) = {} THEN <<>>
    ELSE LET sorted == SortByStart(<<>>, traverse(tree, 1, get_chunkable_node_types(ext),
                                                  utf8_byte_offsets(text), max_chunk_chars))
             kept == DropContained(sorted)
         IN  [n \in 1..Len(kept) |-> sorted[kept[n]]]

\* the (start_char, end_char, node_type) tuples returned
extract_tree_sitter_chunks(text, tree, ext, max_chunk_chars) ==
    LET sel == selected_nodes(text, tree, ext, max_chunk_chars)
    IN  [n \in 1..Len(sel) |-> <<sel[n][1], sel[n][2], sel[n][3]>>]

(***************************************************************************)
(* split_text_to_code_chunks (vector_store.py lines 456-582).              *)
(***************************************************************************)
\* line 474: the offsets of the newlines of the content, ascending
newline_positions(text) ==
    LET at == SelectSeq([n \in 1..Len(text) |-> n], LAMBDA n : text[n] = "\n")
    IN  [n \in 1..Len(at) |-> at[n] - 1]

\* counts the newlines at or after idx instead of those before it
line_number_from_end(positions, idx) ==
    Len(positions) - BisectLeft(positions, idx) + 1

\* _line_number_at: count of '\n' strictly before idx, plus 1
line_number_at(positions, idx) == BisectLeft(positions, idx) + 1

\* lines 495-496 and 573-574
LineOf(positions, idx) ==
    IF positions # <<>> THEN line_number_at(positions, idx) ELSE 1

\* content[s:e].strip()
ChunkText(text, s, e) == Strip(PySlice(text, s, e))

\* keeps every span, blank or not
KeepsAnySpan(text, s, e) == TRUE

\* a span whose text is blank is skipped (lines 489-490 and 567-568)
KeepsSpan(text, s, e) == ChunkText(text, s, e) # <<>>

\* stamps every chunk of a file with the same index
IndexZero(n) == 0

\* lines 487 and 565: idx of enumerate(spans), for the n-th span
IndexOfSpan(n) == n - 1

\* lines 486-502 and 564-580: one dict per span whose text is not blank,
\* chunk_index being the position of the span in the list
RECURSIVE ChunkDicts(_, _, _, _, _)
ChunkDicts(path, text, sp, n, splitter) ==
    IF n > Len(sp) THEN <<>>
    ELSE LET s == sp[n][1]
             e == sp[n][2]
             rest == ChunkDicts(path, text, sp, n + 1, splitter)
         IN  IF ~KeepsSpan(text, s, e) THEN rest
             ELSE <<[path |-> path,
                     chunk_index |-> IndexOfSpan(n),
                     start_line |-> LineOf(newline_positions(text), s),
                     end_line |-> LineOf(newline_positions(text), e),
                     content |-> ChunkText(text, s, e),
                     content_sha256 |-> Sha256(ChunkText(text, s, e)),
                     chunk_type |-> IF splitter = "tree_sitter"
                                    THEN <<"tree_sitter", sp[n][3]>>
                                    ELSE <<"recursive">>,
                     splitter |-> splitter]>> \o rest

\* _get_separators_for_file of the extensions of the model
get_separators_for_file(ext) ==
    IF ext = ".md"
    THEN << <<"\n", "\n">>, <<"\n", "#", " ">>, <<"\n", "#", "#", " ">>,
            <<"\n", "#", "#", "#", " ">>, <<"\n">>, <<".", " ">>, <<" ">>, <<>> >>
    ELSE << <<"\n", "\n">>, <<"\n">>, <<";", " ">>, <<",", " ">>, <<" ">>, <<>> >>

\* lines 511-550: what the LangChain splitter, when installed, hands back:
\* up to two documents, each a (start_index, start_index + len(page_content)).
\* A page_content is a stripped, non-empty piece of the text and start_index
\* is where text.find saw it, so a span with start_index >= 0 covers that
\* piece; start_index is -1 when find did not see the piece again, which
\* cannot happen to the first document (find starts at 0)
LangChainFound(text) ==
    {se \in (0..Len(text)) \X (0..Len(text)) :
        /\ se[1] < se[2]
        /\ Strip(PySlice(text, se[1], se[2])) = PySlice(text, se[1], se[2])}

LangChainSpan(text) ==
    {<<0 - 1, 0 - 1 + n>> : n \in 1..Len(text)} \cup LangChainFound(text)

LangChainSpans(text) ==
    {<<>>} \cup {<<a>> : a \in LangChainFound(text)}
           \cup {<<ab[1], ab[2]>> : ab \in LangChainFound(text) \X LangChainSpan(text)}

\* the files and parameters split
ChunkParams ==
    {cp \in (1..MaxChunkChars) \X (0..MaxChunkChars) : cp[2] < cp[1]}

ChunkInit ==
    /\ fpath \in Paths
    /\ content \in SeqsUpTo(Alphabet, MaxLen)
    /\ \E cp \in ChunkParams : chunk_chars = cp[1] /\ chunk_overlap = cp[2]
    /\ spans = <<>>
    /\ fileChunks = <<>>
    /\ parsed = <<>>
    /\ tier1_spans = <<>>
    /\ cpc = "idle"

\* the chunks of tier 1 for one outcome of the parser
Tier1Chunks(tree) ==
    ChunkDicts(fpath, content,
               extract_tree_sitter_chunks(content, tree, file_ext(fpath), chunk_chars),
               1, "tree_sitter")

\* lines 477-480: what _extract_tree_sitter_chunks may return to the call: no
\* span when the parser is missing (no parser for the extension, tree-sitter
\* not installed) or raised, the spans of the tree otherwise
Tier1Results ==
    {<<>>} \cup
    (IF HasParser(file_ext(fpath))
     THEN {extract_tree_sitter_chunks(content, tree, file_ext(fpath), chunk_chars) :
              tree \in Trees(content)}
     ELSE {})

\* every result of tier 1, whether or not a chunk comes out of it
AnyTier1Results == Tier1Results

\* lines 480-505: the results of tier 1 the call does not return from: no
\* span, or spans that all hold whitespace only
NoTier1Results ==
    {t \in Tier1Results : ChunkDicts(fpath, content, t, 1, "tree_sitter") = <<>>}

\* lines 477-505: the parser exists, tier 1 yields spans and chunks: return them
SplitTreeSitter ==
    /\ cpc = "idle"
    /\ HasParser(file_ext(fpath))
    /\ \E tree \in Trees(content) :
        /\ Tier1Chunks(tree) # <<>>
        /\ spans' = extract_tree_sitter_chunks(content, tree, file_ext(fpath), chunk_chars)
        /\ fileChunks' = Tier1Chunks(tree)
        /\ parsed' = tree
        /\ tier1_spans' = extract_tree_sitter_chunks(content, tree, file_ext(fpath), chunk_chars)
    /\ cpc' = "returned"
    /\ UNCHANGED <<fpath, content, chunk_chars, chunk_overlap>>
    /\ UNCHANGED <<idxVars, embVars, srchVars, rowsVars, fwVars, apiVars, scanVars, fbVars, fmtVars, rdVars>>

\* lines 507-550 and 564-582: tier 1 returned nothing (tree-sitter is not
\* installed, there is no parser for the extension, the parse raised, or no
\* chunk came out of it), the LangChain splitter is installed and hands back
\* documents
SplitLangChain ==
    /\ cpc = "idle"
    /\ tier1_spans' \in NoTier1Results
    /\ \E sp \in LangChainSpans(content) :
        /\ sp # <<>>
        /\ spans' = sp
        /\ fileChunks' = ChunkDicts(fpath, content, sp, 1, "recursive")
    /\ UNCHANGED parsed
    /\ cpc' = "returned"
    /\ UNCHANGED <<fpath, content, chunk_chars, chunk_overlap>>
    /\ UNCHANGED <<idxVars, embVars, srchVars, rowsVars, fwVars, apiVars, scanVars, fbVars, fmtVars, rdVars>>

\* lines 552-582: tier 1 returned nothing and there is no span from
\* LangChain (not installed, raised, or no document): the internal
\* recursive splitter
SplitInternal ==
    /\ cpc = "idle"
    /\ spans' = fallback_recursive_split_spans(
                    content, get_separators_for_file(file_ext(fpath)),
                    chunk_chars, chunk_overlap)
    /\ fileChunks' = ChunkDicts(fpath, content, spans', 1, "recursive")
    /\ tier1_spans' \in NoTier1Results
    /\ UNCHANGED parsed
    /\ cpc' = "returned"
    /\ UNCHANGED <<fpath, content, chunk_chars, chunk_overlap>>
    /\ UNCHANGED <<idxVars, embVars, srchVars, rowsVars, fwVars, apiVars, scanVars, fbVars, fmtVars, rdVars>>

ChunkNext ==
    \/ SplitTreeSitter
    \/ SplitLangChain
    \/ SplitInternal

InitChunk == IdxInit /\ EmbIdle /\ SrchIdle /\ ChunkInit /\ RowsIdle /\ FwIdle /\ ApiIdle /\ ScanIdle /\ FbIdle /\ FmtIdle /\ RdIdle

SpecChunk == InitChunk /\ [][ChunkNext]_vars

\* C9: every chunk returned by split_text_to_code_chunks, of either tier and
\* for every file content, has a content that is not empty after trimming.
C9_ChunkContentNotBlank ==
    (cpc = "returned") =>
        \A n \in 1..Len(fileChunks) :
            /\ fileChunks[n].content # <<>>
            /\ Strip(fileChunks[n].content) = fileChunks[n].content

\* a call returned a chunk although one of its spans covered only whitespace
C9_Witness ==
    /\ cpc = "returned"
    /\ fileChunks # <<>>
    /\ Len(fileChunks) < Len(spans)
    /\ \E n \in 1..Len(spans) :
          /\ spans[n][1] >= 0
          /\ spans[n][1] < spans[n][2]
          /\ Strip(PySlice(content, spans[n][1], spans[n][2])) = <<>>

\* C10: every chunk returned by split_text_to_code_chunks has
\* 1 <= start_line <= end_line, for every file content and both tiers.
C10_LineRangeOrdered ==
    (cpc = "returned") =>
        \A n \in 1..Len(fileChunks) :
            /\ 1 <= fileChunks[n].start_line
            /\ fileChunks[n].start_line <= fileChunks[n].end_line

\* a call returned a chunk that starts after line 1 and ends on a later line
C10_Witness ==
    /\ cpc = "returned"
    /\ \E n \in 1..Len(fileChunks) :
          /\ 1 < fileChunks[n].start_line
          /\ fileChunks[n].start_line < fileChunks[n].end_line

\* the line of the file that holds the character at offset off (0-based)
LineHolding(text, off) == 1 + Cardinality({n \in 1..off : text[n] = "\n"})

\* the number of lines of the file
LineCount(text) == 1 + Cardinality({n \in 1..Len(text) : text[n] = "\n"})

\* the offset of the first character of content[s:e].strip() in the file
FirstKept(text, s, e) ==
    PyIndex(s, Len(text)) + Len(PySlice(text, s, e)) - Len(LStrip(PySlice(text, s, e)))

\* the offset of the last character of content[s:e].strip() in the file
LastKept(text, s, e) == FirstKept(text, s, e) + Len(Strip(PySlice(text, s, e))) - 1

\* the span a returned chunk was cut from
SpanOf(c) == spans[c.chunk_index + 1]

\* C11: for every chunk, start_line is the line of the file that holds the
\* first character of the trimmed content, end_line is the line that holds
\* its last character, and end_line is at most the number of lines of the file.
C11_LinesOfStoredContent ==
    (cpc = "returned") =>
        \A n \in 1..Len(fileChunks) :
            LET c == fileChunks[n] IN
            /\ c.start_line = LineHolding(content, FirstKept(content, SpanOf(c)[1], SpanOf(c)[2]))
            /\ c.end_line = LineHolding(content, LastKept(content, SpanOf(c)[1], SpanOf(c)[2]))
            /\ c.end_line <= LineCount(content)

(***************************************************************************)
(* index_project_chunks_to_pgvector from the file list to the rows         *)
(* (vector_store.py lines 663-779), with the files split for real.  The    *)
(* callers pass neither chunk_chars, chunk_overlap nor max_files; the      *)
(* chunk parameters are those of the model's ChunkParams.                  *)
(***************************************************************************)
\* every list of chunk dicts split_text_to_code_chunks can return for a file
SplitResults(path, text, cc, co) ==
    LET ext == file_ext(path)
        tier1 == IF HasParser(ext)
                 THEN {ChunkDicts(path, text,
                                  extract_tree_sitter_chunks(text, tree, ext, cc),
                                  1, "tree_sitter") : tree \in Trees(text)} \ {<<>>}
                 ELSE {}
        langchain == {ChunkDicts(path, text, sp, 1, "recursive") :
                         sp \in LangChainSpans(text) \ {<<>>}}
        internal == {ChunkDicts(path, text,
                                fallback_recursive_split_spans(
                                    text, get_separators_for_file(ext), cc, co),
                                1, "recursive")}
    IN  tier1 \cup langchain \cup internal

\* the file dicts of a files argument: path and whether absolute_path is set
FileDicts ==
    {[path |-> "a.py", absolute_path |-> TRUE],
     [path |-> "b.md", absolute_path |-> TRUE],
     [path |-> "b.md", absolute_path |-> FALSE]}

\* the files arguments: up to two file dicts, the same path twice included
FileArgs ==
    {<<>>} \cup {<<f>> : f \in FileDicts} \cup {<<fg[1], fg[2]>> : fg \in FileDicts \X FileDicts}

\* line 664: code_files = [f for f in files if f.get("absolute_path") and f.get("path")]
code_files(fs) == SelectSeq(fs, LAMBDA f : f.absolute_path /\ f.path # "")

\* what abs_path.read_text gives for the files that are read and are not
\* blank: one line, two words, two lines, a leading blank line
FileTexts ==
    {<<"é">>, <<"é", " ", "é">>, <<"é", "\n", "é">>, <<"\n", "é">>}

\* lines 740-753: the tuple of one chunk (the vector left out)
RowOf(pid, c) ==
    [project_id |-> pid, path |-> c.path, chunk_index |-> c.chunk_index,
     start_line |-> c.start_line, end_line |-> c.end_line,
     content |-> c.content, content_sha256 |-> c.content_sha256]

\* UNIQUE (project_id, path, chunk_index), lines 97-115
KeyOf(r) == <<r.project_id, r.path, r.chunk_index>>

UniqueKeys(rs) == \A m, n \in 1..Len(rs) : m # n => KeyOf(rs[m]) # KeyOf(rs[n])

RowsInit ==
    /\ rowsPid \in Projects
    /\ filesArg \in FileArgs
    /\ \E cp \in ChunkParams : chunk_chars = cp[1] /\ chunk_overlap = cp[2]
    /\ filePos = 1
    /\ allChunks = <<>>
    /\ files_read = 0
    /\ insertRows = <<>>
    /\ embedCalls = 0
    /\ stats = NoStats
    /\ rpc = "loop"
    /\ fpath = "a.py"
    /\ content = <<>>
    /\ spans = <<>>
    /\ fileChunks = <<>>
    /\ parsed = <<>>
    /\ tier1_spans = <<>>
    /\ cpc = "idle"

\* counts a file that was skipped as read
SkipFileCounted ==
    /\ rpc = "loop"
    /\ filePos <= Len(code_files(filesArg))
    /\ filePos' = filePos + 1
    /\ files_read' = files_read + 1
    /\ UNCHANGED <<rowsPid, filesArg, allChunks, insertRows, embedCalls, stats, rpc>>
    /\ UNCHANGED <<idxVars, embVars, srchVars, chunkVars, fwVars, apiVars, scanVars, fbVars, fmtVars, rdVars>>

\* lines 682-688: the file cannot be read, or its content is blank: continue
SkipFile ==
    /\ rpc = "loop"
    /\ filePos <= Len(code_files(filesArg))
    /\ filePos' = filePos + 1
    /\ UNCHANGED <<rowsPid, filesArg, allChunks, files_read, insertRows, embedCalls,
                   stats, rpc>>
    /\ UNCHANGED <<idxVars, embVars, srchVars, chunkVars, fwVars, apiVars, scanVars, fbVars, fmtVars, rdVars>>

\* lines 680-701: the file is read, split, and its chunks are appended
SplitFile ==
    /\ rpc = "loop"
    /\ filePos <= Len(code_files(filesArg))
    /\ \E text \in FileTexts :
        \E res \in SplitResults(code_files(filesArg)[filePos].path, text,
                                chunk_chars, chunk_overlap) :
            allChunks' = allChunks \o res
    /\ files_read' = files_read + 1
    /\ filePos' = filePos + 1
    /\ UNCHANGED <<rowsPid, filesArg, insertRows, embedCalls, stats, rpc>>
    /\ UNCHANGED <<idxVars, embVars, srchVars, chunkVars, fwVars, apiVars, scanVars, fbVars, fmtVars, rdVars>>

\* lines 703-705: no chunk: return before the delete and the embedding
ReturnNoChunks ==
    /\ rpc = "loop"
    /\ filePos > Len(code_files(filesArg))
    /\ allChunks = <<>>
    /\ stats' = [success |-> TRUE, files_indexed |-> files_read, chunks_written |-> 0]
    /\ rpc' = "returned"
    /\ UNCHANGED <<rowsPid, filesArg, filePos, allChunks, files_read, insertRows,
                   embedCalls>>
    /\ UNCHANGED <<idxVars, embVars, srchVars, chunkVars, fwVars, apiVars, scanVars, fbVars, fmtVars, rdVars>>

\* lines 709-753: delete, embed the contents, build one tuple per chunk
PrepareRows ==
    /\ rpc = "loop"
    /\ filePos > Len(code_files(filesArg))
    /\ allChunks # <<>>
    /\ embedCalls' = embedCalls + 1
    /\ insertRows' = [n \in 1..Len(allChunks) |-> RowOf(rowsPid, allChunks[n])]
    /\ rpc' = "prepared"
    /\ UNCHANGED <<rowsPid, filesArg, filePos, allChunks, files_read, stats>>
    /\ UNCHANGED <<idxVars, embVars, srchVars, chunkVars, fwVars, apiVars, scanVars, fbVars, fmtVars, rdVars>>

\* line 726: embed_texts_openai raises after its retries
EmbedRaises ==
    /\ rpc = "loop"
    /\ filePos > Len(code_files(filesArg))
    /\ allChunks # <<>>
    /\ embedCalls' = embedCalls + 1
    /\ rpc' = "raised"
    /\ UNCHANGED <<rowsPid, filesArg, filePos, allChunks, files_read, insertRows, stats>>
    /\ UNCHANGED <<idxVars, embVars, srchVars, chunkVars, fwVars, apiVars, scanVars, fbVars, fmtVars, rdVars>>

\* lines 755-779: execute_values and commit; Postgres rejects the insert
\* when two tuples share (project_id, path, chunk_index)
InsertRows ==
    /\ rpc = "prepared"
    /\ IF UniqueKeys(insertRows)
       THEN /\ stats' = [success |-> TRUE, files_indexed |-> files_read,
                         chunks_written |-> Len(insertRows)]
            /\ rpc' = "returned"
       ELSE /\ rpc' = "raised"
            /\ UNCHANGED stats
    /\ UNCHANGED <<rowsPid, filesArg, filePos, allChunks, files_read, insertRows,
                   embedCalls>>
    /\ UNCHANGED <<idxVars, embVars, srchVars, chunkVars, fwVars, apiVars, scanVars, fbVars, fmtVars, rdVars>>

RowsNext ==
    \/ SkipFile
    \/ SplitFile
    \/ ReturnNoChunks
    \/ PrepareRows
    \/ EmbedRaises
    \/ InsertRows

InitRows == IdxInit /\ EmbIdle /\ SrchIdle /\ RowsInit /\ FwIdle /\ ApiIdle /\ ScanIdle /\ FbIdle /\ FmtIdle /\ RdIdle

SpecRows == InitRows /\ [][RowsNext]_vars

\* the relative paths of a files argument are pairwise distinct
DistinctPaths(fs) == \A m, n \in 1..Len(fs) : m # n => fs[m].path # fs[n].path

\* C12: for a file list whose relative paths are pairwise distinct, the rows
\* an index run prepares are pairwise distinct on (project, path,
\* chunk_index), so the insert is never rejected by the unique constraint;
\* within one file the chunk_index values are distinct and grow in span order.
C12_RowKeysDistinct ==
    DistinctPaths(filesArg) =>
        /\ UniqueKeys(insertRows)
        /\ (insertRows # <<>> => rpc # "raised")
        /\ \A m, n \in 1..Len(allChunks) :
              (m < n /\ allChunks[m].path = allChunks[n].path)
                  => allChunks[m].chunk_index < allChunks[n].chunk_index

\* a run over two files with distinct paths inserted three rows or more
C12_Witness ==
    /\ rpc = "returned"
    /\ Len(filesArg) = 2
    /\ DistinctPaths(filesArg)
    /\ Len(insertRows) >= 3
    /\ stats.chunks_written = Len(insertRows)

\* node a lies below node b in the tree
RECURSIVE IsDescendant(_, _, _)
IsDescendant(tree, a, b) ==
    /\ tree[a].parent # 0
    /\ (tree[a].parent = b \/ IsDescendant(tree, tree[a].parent, b))

\* no chunk of the list is fully contained in another, and no chunk's node
\* is a descendant of another chunk's node
ContainmentFree(tree, sel) ==
    \A m, n \in 1..Len(sel) :
        m # n => /\ ~(sel[m][1] >= sel[n][1] /\ sel[m][2] <= sel[n][2])
                 /\ ~IsDescendant(tree, sel[m][4], sel[n][4])

\* C13: for every syntax tree, the spans tier-1 chunking returns are
\* containment-free: no returned span is fully contained in another returned
\* span and no returned node is a descendant of another returned node.
C13_Tier1ContainmentFree ==
    /\ \A tree \in Trees(content) :
          ContainmentFree(tree, selected_nodes(content, tree, file_ext(fpath), chunk_chars))
    /\ (cpc = "returned" /\ parsed # ParseError) =>
          /\ spans = extract_tree_sitter_chunks(content, parsed, file_ext(fpath), chunk_chars)
          /\ \A m, n \in 1..Len(spans) :
                m # n => ~(spans[m][1] >= spans[n][1] /\ spans[m][2] <= spans[n][2])

\* tier 1 returned one span of a tree that holds two chunkable nodes
C13_Witness ==
    /\ cpc = "returned"
    /\ Len(parsed) = 3
    /\ parsed[2].type = "function_definition"
    /\ parsed[3].type = "function_definition"
    /\ Len(spans) = 1

\* the loop over the files is over and no file gave a chunk
NoChunkRun == rpc # "loop" /\ rpc # "idle" /\ allChunks = <<>>

\* C14: an index run over zero files, or whose files produce no chunks,
\* succeeds without error and reports files_indexed = 0 and
\* chunks_written = 0, and the embedding provider is not called.
C14_EmptyRunSucceeds ==
    NoChunkRun =>
        /\ rpc = "returned"
        /\ stats.success
        /\ stats.files_indexed = 0
        /\ stats.chunks_written = 0
        /\ embedCalls = 0

\* a run over two files that were both skipped has returned
C14_Witness ==
    /\ NoChunkRun
    /\ rpc = "returned"
    /\ Len(code_files(filesArg)) = 2

(***************************************************************************)
(* RepositoryAnalyzer._detect_framework (repository_analyzer.py lines      *)
(* 252-308) over FRAMEWORK_PATTERNS (lines 16-69).                         *)
(*                                                                         *)
(* A project directory is: the file names found anywhere below it (what    *)
(* rglob sees), its root package.json ("absent", "invalid" when it does    *)
(* not parse, else "ok" with the names under dependencies and              *)
(* devDependencies), and the code files of files_map, each the set of      *)
(* patterns that occur in its text, or not readable when open fails.       *)
(***************************************************************************)
\* FRAMEWORK_PATTERNS[fw]['files']
FwFiles(fw) ==
    CASE fw = "fastapi" -> {"main.py", "app.py"}
      [] fw = "flask" -> {"app.py", "wsgi.py"}
      [] fw = "django" -> {"manage.py", "settings.py", "wsgi.py"}
      [] fw = "react" -> {"package.json"}
      [] fw = "nextjs" -> {"next.config.js", "next.config.ts"}
      [] fw = "vue" -> {"vue.config.js"}
      [] fw = "angular" -> {"angular.json"}
      [] fw = "express" -> {"server.js", "app.js"}
      [] fw = "spring-boot" -> {"pom.xml", "build.gradle"}
      [] fw = "laravel" -> {"artisan", "composer.json"}

\* FRAMEWORK_PATTERNS[fw]['imports']
FwImports(fw) ==
    CASE fw = "fastapi" -> {"from fastapi import", "import fastapi"}
      [] fw = "flask" -> {"from flask import", "import flask"}
      [] fw = "django" -> {"from django", "import django"}
      [] fw = "react" -> {"from react", "from 'react'", "import react", "import 'react'"}
      [] fw = "nextjs" -> {"from next", "from 'next'"}
      [] fw = "vue" -> {"from vue", "from 'vue'"}
      [] fw = "angular" -> {"from @angular"}
      [] fw = "express" -> {"from express", "from 'express'", "require(\"express\")",
                            "require('express')"}
      [] fw = "spring-boot" -> {"import org.springframework"}
      [] fw = "laravel" -> {"use Illuminate"}

\* FRAMEWORK_PATTERNS[fw]['indicators']
FwIndicators(fw) ==
    CASE fw = "fastapi" -> {"FastAPI(", "@app.get", "@app.post"}
      [] fw = "flask" -> {"Flask(", "@app.route"}
      [] fw = "django" -> {"INSTALLED_APPS", "MIDDLEWARE"}
      [] fw = "react" -> {"React.Component", "useState", "useEffect"}
      [] fw = "nextjs" -> {"export default function", "getServerSideProps", "getStaticProps"}
      [] fw = "vue" -> {"createApp", "Vue.component"}
      [] fw = "angular" -> {"@Component", "@NgModule"}
      [] fw = "express" -> {"express()", "app.listen"}
      [] fw = "spring-boot" -> {"@SpringBootApplication", "@RestController", "@Service"}
      [] fw = "laravel" -> {"namespace App\\", "Route::"}

\* FRAMEWORK_PATTERNS[fw]['package_deps'], {} for a framework without the key
FwDeps(fw) ==
    CASE fw = "react" -> {"react", "react-dom"}
      [] fw = "nextjs" -> {"next"}
      [] fw = "vue" -> {"vue"}
      [] fw = "angular" -> {"@angular/core"}
      [] fw = "express" -> {"express"}
      [] OTHER -> {}

\* the directories explored
RepoNames == {"package.json", "app.py", "next.config.js"}
RepoDeps == {"react", "react-dom", "next"}
RepoTokens == {"import react", "useState", "from fastapi import"}

PackageJsons ==
    {[state |-> "absent", deps |-> {}], [state |-> "invalid", deps |-> {}]}
    \cup {[state |-> "ok", deps |-> ds] : ds \in SUBSET RepoDeps}

CodeFiles ==
    {[readable |-> FALSE, has |-> {}]}
    \cup {[readable |-> TRUE, has |-> c] : c \in SUBSET RepoTokens}

\* line 266: files[:20], the first 20 files of a language
FilesPerLanguage == 20

\* code files without any pattern, as many as one run reads
Padding == [n \in 1..FilesPerLanguage |-> [readable |-> TRUE, has |-> {}]]

\* no code file, one code file, or one code file more than a run reads
Repos ==
    {r \in [names : SUBSET RepoNames,
            pkg : PackageJsons,
            code : {<<>>} \cup {<<c>> : c \in CodeFiles}
                         \cup {Padding \o <<c>> : c \in CodeFiles}] :
        r.pkg.state # "absent" => "package.json" \in r.names}

\* lines 259-262: 2 for each file pattern that rglob finds
FileScore(fw, r) == 2 * Cardinality(FwFiles(fw) \cap r.names)

\* lines 265-282: per code file, 3 when an import pattern occurs in it and 1
\* for each indicator that occurs in it; a file that cannot be read adds 0
RECURSIVE CodeScore(_, _, _)
CodeScore(fw, code, n) ==
    IF n > Len(code) THEN 0
    ELSE (IF ~code[n].readable THEN 0
          ELSE (IF FwImports(fw) \cap code[n].has # {} THEN 3 ELSE 0)
               + Cardinality(FwIndicators(fw) \cap code[n].has))
         + CodeScore(fw, code, n + 1)

\* lines 284-298: 5 for each package_deps entry among the dependencies of
\* the root package.json, when it exists and parses
DepsScore(fw, r) ==
    IF r.pkg.state # "ok" THEN 0
    ELSE 5 * Cardinality(FwDeps(fw) \cap r.pkg.deps)

FrameworkScore(fw, r) == FileScore(fw, r) + CodeScore(fw, r.code, 1) + DepsScore(fw, r)

\* lines 300-308: the frameworks with a positive score, sorted by score,
\* highest first (a stable sort: ties keep the order of FRAMEWORK_PATTERNS)
DetectedFramework(r) ==
    LET pos == {n \in 1..Len(Frameworks) : FrameworkScore(Frameworks[n], r) > 0}
        best == {n \in pos : \A m \in pos :
                    \/ FrameworkScore(Frameworks[m], r) < FrameworkScore(Frameworks[n], r)
                    \/ (FrameworkScore(Frameworks[m], r) = FrameworkScore(Frameworks[n], r)
                        /\ n <= m)}
    IN  IF pos = {} THEN "None" ELSE Frameworks[CHOOSE n \in best : TRUE]

FwInit ==
    /\ repo \in Repos
    /\ listing = <<>>
    /\ fwScores = [fw \in FrameworkNames |-> 0]
    /\ framework = "None"
    /\ prevFw = NoDetection
    /\ fwRuns = 0
    /\ fpc = "idle"

\* lines 208-223: files_map lists the code files in the order of rglob, which
\* is the order of the directory entries: the order the files are kept in,
\* or the reverse
Reverse(fs) == [n \in 1..Len(fs) |-> fs[Len(fs) + 1 - n]]

Listings(fs) == {fs, Reverse(fs)}

\* line 266: files[:20]
FirstFiles(fs) == SubSeq(fs, 1, Min(Len(fs), FilesPerLanguage))

\* _scan_files and _detect_framework over the repository, once more after
\* a first detection
detect_framework ==
    /\ fpc \in {"idle", "returned"}
    /\ fwRuns < MaxFwRuns
    /\ \E fs \in Listings(repo.code) :
        LET seen == [repo EXCEPT !.code = FirstFiles(fs)] IN
        /\ listing' = fs
        /\ fwScores' = [fw \in FrameworkNames |-> FrameworkScore(fw, seen)]
        /\ framework' = DetectedFramework(seen)
    /\ prevFw' = [scores |-> fwScores, framework |-> framework]
    /\ fwRuns' = fwRuns + 1
    /\ fpc' = "returned"
    /\ UNCHANGED repo
    /\ UNCHANGED <<idxVars, embVars, srchVars, chunkVars, rowsVars, apiVars, scanVars, fbVars, fmtVars, rdVars>>

FwNext == detect_framework

InitFw == IdxInit /\ EmbIdle /\ SrchIdle /\ ChunkIdle /\ RowsIdle /\ FwInit /\ ApiIdle /\ ScanIdle /\ FbIdle /\ FmtIdle /\ RdIdle

SpecFw == InitFw /\ [][FwNext]_vars

\* the only framework signal of the directory is a package.json that lists
\* "react" as a dependency
OnlyReactDependency ==
    /\ repo.names = {"package.json"}
    /\ repo.pkg = [state |-> "ok", deps |-> {"react"}]
    /\ \A n \in 1..Len(repo.code) : repo.code[n].has = {}

\* C15: for a repository whose only framework signal is a package.json that
\* lists "react" as a dependency, react scores 5, every other framework
\* scores 0, and the detected framework is "react".
C15_ReactScoresFive ==
    (fpc = "returned" /\ OnlyReactDependency) =>
        /\ fwScores["react"] = 5
        /\ \A fw \in FrameworkNames \ {"react"} : fwScores[fw] = 0
        /\ framework = "react"

(***************************************************************************)
(* RepositoryAnalyzer._detect_api_endpoints (repository_analyzer.py lines  *)
(* 369-402) and the two result fields of analyze (lines 172 and 176).      *)
(*                                                                         *)
(* A text is a list of lexemes: "@", "app.", "Route::", a method name      *)
(* ("get", or "GetMapping" for a mapping annotation), "(", a quoted path   *)
(* "'/p'" and "x" for anything else.  A pattern is the list of lexemes it  *)
(* matches; none of the four is anchored.                                  *)
(***************************************************************************)
\* the four regular expressions of lines 372-377, in order, with the method
\* each captures
RoutePatterns ==
    << [lex |-> <<"@", "app.", "get", "(", "'/p'">>, method |-> "get"],
       [lex |-> <<"@", "GetMapping", "(", "'/p'">>, method |-> "Get"],
       [lex |-> <<"Route::", "get", "(", "'/p'">>, method |-> "get"],
       [lex |-> <<"app.", "get", "(", "'/p'">>, method |-> "get"] >>

\* the pattern matches the text at offset pos (0-based)
MatchesAt(pat, text, pos) ==
    /\ pos + Len(pat.lex) <= Len(text)
    /\ \A n \in 1..Len(pat.lex) : text[pos + n] = pat.lex[n]

\* re.findall(pattern, content): the matches from left to right, without
\* overlap, each a (method, path) tuple
RECURSIVE FindAll(_, _, _)
FindAll(pat, text, pos) ==
    IF pos >= Len(text) THEN <<>>
    ELSE IF MatchesAt(pat, text, pos)
         THEN <<[method |-> pat.method, path |-> "/p"]>>
                  \o FindAll(pat, text, pos + Len(pat.lex))
         ELSE FindAll(pat, text, pos + 1)

\* match[0].upper()
Upper(m) == IF m = "get" \/ m = "Get" THEN "GET" ELSE m

\* lines 385-395: for each pattern, one endpoint per match
RECURSIVE EndpointsOf(_, _)
EndpointsOf(text, k) ==
    IF k > Len(RoutePatterns) THEN <<>>
    ELSE LET ms == FindAll(RoutePatterns[k], text, 0) IN
         [n \in 1..Len(ms) |-> [method |-> Upper(ms[n].method), path |-> ms[n].path,
                                file |-> "f"]]
             \o EndpointsOf(text, k + 1)

\* f.read(): the lines of the file one after the other
RECURSIVE Flatten(_)
Flatten(ls) == IF ls = <<>> THEN <<>> ELSE Head(ls) \o Flatten(Tail(ls))

\* the lines a scanned file is made of: a route declaration of each
\* supported style, and a line of other code
SourceLines ==
    { <<"@", "app.", "get", "(", "'/p'">>,
      <<"app.", "get", "(", "'/p'">>,
      <<"Route::", "get", "(", "'/p'">>,
      <<"@", "GetMapping", "(", "'/p'">>,
      <<"x">> }

\* analysis_result['api_endpoints_details'] = endpoints[:10], line 176
DetailCap == 10

ApiInit ==
    /\ srcFile \in [readable : BOOLEAN, lines : SeqsUpTo(SourceLines, MaxDecls)]
    /\ endpoints = <<>>
    /\ api_endpoints_count = 0
    /\ api_endpoints_details = <<>>
    /\ apc = "idle"

\* lines 369-402, then lines 172 and 176 of analyze; a file that cannot be
\* opened is passed over (lines 396-397)
detect_api_endpoints ==
    /\ apc = "idle"
    /\ endpoints' = IF srcFile.readable THEN EndpointsOf(Flatten(srcFile.lines), 1)
                    ELSE <<>>
    /\ api_endpoints_count' = Len(endpoints')
    /\ api_endpoints_details' = SubSeq(endpoints', 1, Min(DetailCap, Len(endpoints')))
    /\ apc' = "returned"
    /\ UNCHANGED srcFile
    /\ UNCHANGED <<idxVars, embVars, srchVars, chunkVars, rowsVars, fwVars, scanVars, fbVars, fmtVars, rdVars>>

ApiNext == detect_api_endpoints

InitApi == IdxInit /\ EmbIdle /\ SrchIdle /\ ChunkIdle /\ RowsIdle /\ FwIdle /\ ApiInit /\ ScanIdle /\ FbIdle /\ FmtIdle /\ RdIdle

SpecApi == InitApi /\ [][ApiNext]_vars

\* the route declarations present in the lines: the lines that are one
IsDeclaration(line) == \E k \in 1..Len(RoutePatterns) : line = RoutePatterns[k].lex

DeclarationCount(ls) == Cardinality({n \in 1..Len(ls) : IsDeclaration(ls[n])})

\* C16: api_endpoints_count is the number of route declarations present in
\* the scanned files, each declaration of any supported style counted once,
\* and api_endpoints_details holds at most 10 of them.
C16_EndpointCountExact ==
    (apc = "returned" /\ srcFile.readable) =>
        /\ api_endpoints_count = DeclarationCount(srcFile.lines)
        /\ Len(api_endpoints_details) <= DetailCap
        /\ Len(api_endpoints_details) <= DeclarationCount(srcFile.lines)

\* C19: when the query embedding fails after its retries or the store query
\* fails, vector_search_project returns no rows and the error reaches its
\* caller, which answers with an error: neither the rows of an earlier
\* search nor an empty list stand in for the error.
C19_SearchErrorSurfaces ==
    /\ (searchErr # "") <=> (spc = "raised")
    /\ (searchErr # "") =>
          /\ found = <<>>
          /\ response.status = 500
          /\ response.results = <<>>
    /\ (response.status = 200) => (spc = "returned" /\ response.results = found)

\* the second search over a stored chunk set that holds rows matching it
\* raised in the store query
C19_Witness ==
    /\ searches = MaxSearches
    /\ searchErr = "query"
    /\ spc = "raised"
    /\ Matching(store, search) # {}

(***************************************************************************)
(* The file scanners: fetch_repo_metadata_node (code_analyser.py) and      *)
(* _scan_project_files (scripts/reindex_pgvector.py).                      *)
(*                                                                         *)
(* A path is the sequence of its parts; a name is the sequence of its      *)
(* pieces, split before each dot that is not its first character:          *)
(* "app.min.js" is <<"app", ".min", ".js">>, ".git" is <<".git">>.  Two    *)
(* names are the same string exactly when their pieces are equal.  The     *)
(* tree is readable: failures of rglob, is_file and stat are not modelled. *)
(***************************************************************************)
\* deepest directory below the root, and longest root path, explored
MaxDepth == 2
\* largest number of entries below the root
MaxEntries == 2

SKIP_PATTERNS ==
    {".git", "node_modules", "__pycache__", ".venv", "venv", "dist", "build",
     ".next", "coverage", ".pytest_cache", ".egg-info", ".tox", ".mypy_cache"}

SKIP_DIR_NAMES ==
    {".git", "node_modules", "__pycache__", ".venv", "venv", "dist", "build",
     ".next", "coverage", ".pytest_cache", ".egg-info", ".tox", ".mypy_cache"}

\* the same set in both files
SKIP_EXTENSIONS ==
    {".min.js", ".map", ".lock", ".log", ".png", ".jpg", ".jpeg",
     ".gif", ".svg", ".ico", ".pdf", ".zip", ".tar", ".gz", ".woff", ".ttf"}

\* the same set in both files
CODE_EXTENSIONS ==
    {".py", ".js", ".jsx", ".ts", ".tsx", ".java", ".c", ".cpp", ".h", ".hpp",
     ".go", ".rs", ".rb", ".php", ".swift", ".kt", ".cs", ".md", ".json",
     ".yaml", ".yml"}

\* Path.suffix: the last piece of the name, "" when the name has one piece
suffix(name) == IF Len(name) > 1 THEN name[Len(name)] ELSE ""

\* str.lower over the pieces explored
lower(s) ==
    CASE s = ".PY" -> ".py"
      [] s = ".PNG" -> ".png"
      [] s = "Y" -> "y"
      [] s = "z" -> "z"
      [] OTHER -> s

\* directory names: one ordinary, one of SKIP_PATTERNS
DirNames == {"src", "build"}
\* file names: allow-listed, minified, excluded, upper-case, without suffix
FileNames ==
    {<<"a", ".py">>, <<"app", ".min", ".js">>, <<"x", ".map">>,
     <<"Y", ".PY">>, <<"z", ".PNG">>, <<"build">>}

\* what rglob('*') can yield below the root: files and directories
Entries ==
    [dirs : SeqsUpTo(DirNames, MaxDepth), name : FileNames, is_file : BOOLEAN]

\* no two entries of a directory tree have the same path
Trees2 ==
    {t \in {{s[j] : j \in 1..Len(s)} : s \in SeqsUpTo(Entries, MaxEntries)} :
        \A x \in t : \A y \in t :
            (x.dirs = y.dirs /\ x.name = y.name) => x = y}

\* file_path.parts: the parts of the root as given, the directories below it,
\* and the file name
parts(root, e) ==
    [j \in 1..Len(root) |-> <<root[j]>>] \o
    [j \in 1..Len(e.dirs) |-> <<e.dirs[j]>>] \o <<e.name>>

in_parts(s, p) == \E j \in 1..Len(p) : p[j] = <<s>>

\* file_meta: relative path, name and extension
file_meta(e) == [dirs |-> e.dirs, name |-> e.name, ext |-> lower(suffix(e.name))]

\* the loop body of fetch_repo_metadata_node: whether the entry is kept
fetch_keeps(root, e) ==
    /\ e.is_file
    /\ ~ \E skip_dir \in SKIP_PATTERNS : in_parts(skip_dir, parts(root, e))
    /\ suffix(e.name) \notin SKIP_EXTENSIONS
    /\ lower(suffix(e.name)) \in CODE_EXTENSIONS

\* the loop body of _scan_project_files: whether the entry is kept
scan_keeps(root, e) ==
    /\ e.is_file
    /\ ~ \E part \in {parts(root, e)[j] : j \in 1..Len(parts(root, e))} :
            \E s \in SKIP_DIR_NAMES : part = <<s>>
    /\ lower(suffix(e.name)) \notin SKIP_EXTENSIONS
    /\ lower(suffix(e.name)) \in CODE_EXTENSIONS

ScanInit ==
    /\ project_path \in SeqsUpTo(DirNames \cup {"srv"}, MaxDepth)
    /\ path_exists \in BOOLEAN
    /\ entries \in Trees2
    /\ path_exists = FALSE => entries = {}
    /\ all_files = {}
    /\ scanner = ""
    /\ scpc = "idle"

\* fetch_repo_metadata_node, the root missing: an empty list
FetchNoPath ==
    /\ scpc = "idle"
    /\ ~path_exists
    /\ all_files' = {}
    /\ scanner' = "fetch_repo_metadata_node"
    /\ scpc' = "returned"
    /\ UNCHANGED <<project_path, path_exists, entries>>
    /\ UNCHANGED <<idxVars, embVars, srchVars, chunkVars, rowsVars, fwVars, apiVars, fbVars, fmtVars, rdVars>>

fetch_repo_metadata_node ==
    /\ scpc = "idle"
    /\ path_exists
    /\ all_files' = {file_meta(e) : e \in {x \in entries : fetch_keeps(project_path, x)}}
    /\ scanner' = "fetch_repo_metadata_node"
    /\ scpc' = "returned"
    /\ UNCHANGED <<project_path, path_exists, entries>>
    /\ UNCHANGED <<idxVars, embVars, srchVars, chunkVars, rowsVars, fwVars, apiVars, fbVars, fmtVars, rdVars>>

\* _scan_project_files: main calls it on a root _resolve_project_root found
scan_project_files ==
    /\ scpc = "idle"
    /\ path_exists
    /\ all_files' = {file_meta(e) : e \in {x \in entries : scan_keeps(project_path, x)}}
    /\ scanner' = "_scan_project_files"
    /\ scpc' = "returned"
    /\ UNCHANGED <<project_path, path_exists, entries>>
    /\ UNCHANGED <<idxVars, embVars, srchVars, chunkVars, rowsVars, fwVars, apiVars, fbVars, fmtVars, rdVars>>

ScanNext == FetchNoPath \/ fetch_repo_metadata_node \/ scan_project_files

InitScan == IdxInit /\ EmbIdle /\ SrchIdle /\ ChunkIdle /\ RowsIdle /\ FwIdle /\ ApiIdle /\ ScanInit /\ FbIdle /\ FmtIdle /\ RdIdle

SpecScan == InitScan /\ [][ScanNext]_vars

\* the pieces of an extension of SKIP_EXTENSIONS
ExtPieces(x) == IF x = ".min.js" THEN <<".min", ".js">> ELSE <<x>>

\* the file name ends with the extension x
NameEndsWith(name, x) ==
    LET p == ExtPieces(x) IN
    /\ Len(name) >= Len(p)
    /\ SubSeq(name, Len(name) - Len(p) + 1, Len(name)) = p

\* what the scan is to return, told from the path below the root alone
ToBeReturned(e) ==
    /\ e.is_file
    /\ \A j \in 1..Len(e.dirs) : e.dirs[j] \notin SKIP_PATTERNS
    /\ ~ \E x \in SKIP_EXTENSIONS : NameEndsWith(e.name, x)
    /\ lower(suffix(e.name)) \in CODE_EXTENSIONS

\* C20: the scan returns a file if and only if no directory on its path below
\* the root has an excluded name, its name does not end with an excluded
\* extension, and its extension is allow-listed; the names of the directories
\* above the root make no difference.
C20_ScanReturnsExactly ==
    (scpc = "returned") =>
        all_files = {file_meta(e) : e \in {x \in entries : ToBeReturned(x)}}

\* a scan of a tree below an ordinarily named root that returned a file
C20_Witness ==
    /\ scpc = "returned"
    /\ \A j \in 1..Len(project_path) : project_path[j] \notin SKIP_PATTERNS
    /\ \E e \in entries : e.name = <<"a", ".py">> /\ file_meta(e) \in all_files
    /\ \E e \in entries : e.dirs # <<>> /\ file_meta(e) \notin all_files

(***************************************************************************)
(* C21: the choice of the tier.                                            *)
(***************************************************************************)
\* the span lists tier 2 can produce for the whole content
Tier2Spans ==
    (LangChainSpans(content) \ {<<>>}) \cup
    {fallback_recursive_split_spans(content, get_separators_for_file(file_ext(fpath)),
                                    chunk_chars, chunk_overlap)}

\* every chunk of the list names the given splitter
SameSplitter(cs, name) == \A n \in 1..Len(cs) : cs[n].splitter = name

\* C21: split_text_to_code_chunks returns the tier-1 chunks whenever a parser
\* exists for the extension and tier 1 yields a chunk with text, and the
\* tier-2 chunks of the whole file otherwise; the chunks returned never come
\* from both tiers.
C21_TierSelection ==
    (cpc = "returned") =>
        LET t1 == ChunkDicts(fpath, content, tier1_spans, 1, "tree_sitter")
        IN  IF HasParser(file_ext(fpath)) /\ t1 # <<>>
            THEN /\ fileChunks = t1
                 /\ SameSplitter(fileChunks, "tree_sitter")
            ELSE /\ spans \in Tier2Spans
                 /\ fileChunks = ChunkDicts(fpath, content, spans, 1, "recursive")
                 /\ SameSplitter(fileChunks, "recursive")

\* a parser exists and tier 1 returned spans, all of them blank: the call
\* returned the chunks of tier 2
C21_Witness ==
    /\ cpc = "returned"
    /\ HasParser(file_ext(fpath))
    /\ tier1_spans # <<>>
    /\ fileChunks # <<>>
    /\ fileChunks[1].splitter = "recursive"

(***************************************************************************)
(* _fallback_recursive_split_spans as a function of its arguments          *)
(* (vector_store.py lines 377-453).                                        *)
(***************************************************************************)
\* longest content handed to the fallback splitter
MaxFbLen == 4
\* largest chunk_size handed to the fallback splitter
MaxFbSize == 3

\* the separator lists: those of _get_separators_for_file, short lists that
\* end with the empty separator, and lists that do not
FbSeparators ==
    {get_separators_for_file(".py"), get_separators_for_file(".md"),
     << <<>> >>, << <<" ">>, <<"\n">>, <<>> >>, << <<" ">> >>, <<>>}

\* chunk_size and chunk_overlap are any integers
FbSizes == (0 - 1)..MaxFbSize
FbOverlaps == (0 - 1)..(MaxFbSize + 1)

FbInit ==
    /\ fb_content \in SeqsUpTo(Alphabet, MaxFbLen)
    /\ fb_separators \in FbSeparators
    /\ fb_chunk_size \in FbSizes
    /\ fb_chunk_overlap \in FbOverlaps
    /\ fb_spans = <<>>
    /\ fb_stack = <<>>
    /\ fbpc = "idle"

\* the call and its return
FallbackSplit ==
    /\ fbpc = "idle"
    /\ fb_spans' = fallback_recursive_split_spans(fb_content, fb_separators,
                                                  fb_chunk_size, fb_chunk_overlap)
    /\ fbpc' = "returned"
    /\ UNCHANGED <<fb_content, fb_separators, fb_chunk_size, fb_chunk_overlap, fb_stack>>
    /\ UNCHANGED <<idxVars, embVars, srchVars, chunkVars, rowsVars, fwVars, apiVars, scanVars, fmtVars, rdVars>>

FbNext == FallbackSplit

InitFb == IdxInit /\ EmbIdle /\ SrchIdle /\ ChunkIdle /\ RowsIdle /\ FwIdle /\ ApiIdle /\ ScanIdle /\ FbInit /\ FmtIdle /\ RdIdle

SpecFallback == InitFb /\ [][FbNext]_vars

\* the separator list ends with the empty separator
EndsWithEmptySeparator ==
    fb_separators # <<>> /\ fb_separators[Len(fb_separators)] = <<>>

\* chunk_size >= 1 and 0 <= chunk_overlap < chunk_size
SizesInRange ==
    fb_chunk_size >= 1 /\ 0 <= fb_chunk_overlap /\ fb_chunk_overlap < fb_chunk_size

\* C22: with a separator list ending in the empty separator, chunk_size >= 1
\* and 0 <= chunk_overlap < chunk_size, every span (s, e) of the fallback
\* splitter has 0 <= s < e <= len(content) and e - s <= chunk_size.
C22_SpansInsideAndBounded ==
    (fbpc = "returned" /\ EndsWithEmptySeparator /\ SizesInRange) =>
        \A n \in 1..Len(fb_spans) :
            /\ 0 <= fb_spans[n][1]
            /\ fb_spans[n][1] < fb_spans[n][2]
            /\ fb_spans[n][2] <= Len(fb_content)
            /\ fb_spans[n][2] - fb_spans[n][1] <= fb_chunk_size

\* a content longer than chunk_size that no separator but the empty one
\* splits came back as several windows
C22_Witness ==
    /\ fbpc = "returned"
    /\ EndsWithEmptySeparator
    /\ SizesInRange
    /\ fb_content = <<"é", "é", "é", "é">>
    /\ Len(fb_spans) >= 2

\* the number of characters two spans have in common
Shared(a, b) == Max(0, Min(a[2], b[2]) - Max(a[1], b[1]))

\* C23: the fallback splitter emits its spans in non-decreasing order of start
\* offset, and two consecutive spans share at most chunk_overlap characters
\* (chunk_size >= 1, chunk_overlap >= 0).
C23_OrderedBoundedOverlap ==
    (fbpc = "returned" /\ fb_chunk_size >= 1 /\ fb_chunk_overlap >= 0) =>
        \A n \in 1..(Len(fb_spans) - 1) :
            /\ fb_spans[n][1] <= fb_spans[n + 1][1]
            /\ Shared(fb_spans[n], fb_spans[n + 1]) <= fb_chunk_overlap

\* a split at a separator gave a chunk of three characters and a next chunk
\* that starts with the last of them
C23_Witness ==
    /\ fbpc = "returned"
    /\ SizesInRange
    /\ fb_separators = get_separators_for_file(".py")
    /\ \E n \in 1..(Len(fb_spans) - 1) :
          /\ fb_spans[n] = <<0, 3>>
          /\ fb_spans[n + 1] = <<2, 4>>
          /\ fb_chunk_overlap = 1

\* the characters of the content that are not whitespace, by position
Inked == {m \in 1..Len(fb_content) : ~IsSpace(fb_content[m])}

\* character m (counted from 1) lies inside the span
Covers(sp, m) == sp[1] < m /\ m <= sp[2]

\* C28: with chunk_size >= 1 and 0 <= chunk_overlap < chunk_size, every
\* character of the content that is not whitespace lies inside a span
\* returned by the fallback splitter.
C28_NoTextDropped ==
    (fbpc = "returned" /\ SizesInRange) =>
        \A m \in Inked : \E n \in 1..Len(fb_spans) : Covers(fb_spans[n], m)

\* a content with text on both sides of a blank stretch was split at a
\* separator, and the blank piece between came back in no span
C28_Witness ==
    /\ fbpc = "returned"
    /\ SizesInRange
    /\ fb_separators = get_separators_for_file(".md")
    /\ Cardinality(Inked) >= 2
    /\ \E m \in 1..Len(fb_content) :
          /\ IsSpace(fb_content[m])
          /\ ~\E n \in 1..Len(fb_spans) : Covers(fb_spans[n], m)

(***************************************************************************)
(* _fallback_recursive_split_spans, one loop iteration at a time           *)
(* (vector_store.py lines 390-453).  A frame of fb_stack is one call of    *)
(* split_recursive: its arguments, its position and its local variables.   *)
(***************************************************************************)
\* the step of the window loop may stand still
WindowStepOrNone(size, overlap) == Max(0, size - Max(0, overlap))

\* line 399: step = max(1, chunk_size - max(0, chunk_overlap))
WindowStep(size, overlap) == Max(1, size - Max(0, overlap))

\* a call of split_recursive(text, start_offset, seps), at its first line
Frame(text, off, seps) ==
    [text |-> text, off |-> off, seps |-> seps, at |-> "entry", k |-> 1, idx |-> 0,
     pieces |-> <<>>, n |-> 1, cur_start |-> 0, cur_end |-> 0]

Top == fb_stack[Len(fb_stack)]
Outer == SubSeq(fb_stack, 1, Len(fb_stack) - 1)

\* the innermost call returns; the splitter returns with the outermost
Return(callers) ==
    /\ fb_stack' = callers
    /\ fbpc' = IF callers = <<>> THEN "returned" ELSE "running"

FbStepsInit ==
    /\ fb_content \in SeqsUpTo(Alphabet, MaxLen)
    /\ fb_separators \in FbSeparators
    /\ fb_chunk_size \in FbSizes
    /\ fb_chunk_overlap \in FbOverlaps
    /\ fb_spans = <<>>
    /\ fb_stack = <<>>
    /\ fbpc = "idle"

\* line 452: split_recursive(content, 0, list(separators))
FbCall ==
    /\ fbpc = "idle"
    /\ fb_stack' = <<Frame(fb_content, 0, fb_separators)>>
    /\ fbpc' = "running"
    /\ UNCHANGED <<fb_content, fb_separators, fb_chunk_size, fb_chunk_overlap, fb_spans>>
    /\ UNCHANGED <<idxVars, embVars, srchVars, chunkVars, rowsVars, fwVars, apiVars, scanVars, fmtVars, rdVars>>

\* lines 391-394: a text of at most chunk_size characters is one span
FbEnter ==
    /\ fbpc = "running"
    /\ Top.at = "entry"
    /\ IF Len(Top.text) <= fb_chunk_size
       THEN /\ fb_spans' = fb_spans \o SpanIfText(Top.text, Top.off, 0, Len(Top.text))
            /\ Return(Outer)
       ELSE /\ fb_stack' = Outer \o <<[Top EXCEPT !.at = "for", !.k = 1]>>
            /\ UNCHANGED <<fb_spans, fbpc>>
    /\ UNCHANGED <<fb_content, fb_separators, fb_chunk_size, fb_chunk_overlap>>
    /\ UNCHANGED <<idxVars, embVars, srchVars, chunkVars, rowsVars, fwVars, apiVars, scanVars, fmtVars, rdVars>>

\* lines 396-420 and 449-450: one iteration of `for sep in seps`, or the
\* call with the single empty separator when the loop ends
FbForSep ==
    /\ fbpc = "running"
    /\ Top.at = "for"
    /\ IF Top.k > Len(Top.seps)
       THEN fb_stack' = Outer \o <<[Top EXCEPT !.at = "tail"],
                                     Frame(Top.text, Top.off, <<<<>>>>)>>
       ELSE LET sep == Top.seps[Top.k] IN
            IF sep = <<>>
            THEN fb_stack' = Outer \o <<[Top EXCEPT !.at = "window", !.idx = 0]>>
            ELSE IF Contains(Top.text, sep)
            THEN LET pieces == PieceSpans(PySplit(Top.text, sep), sep, 1, 0) IN
                 fb_stack' = Outer \o
                     <<[Top EXCEPT !.at = "merge", !.pieces = pieces, !.n = 1,
                                   !.cur_start = pieces[1][1], !.cur_end = pieces[1][1]]>>
            ELSE fb_stack' = Outer \o <<[Top EXCEPT !.k = Top.k + 1]>>
    /\ UNCHANGED <<fb_spans, fbpc>>
    /\ UNCHANGED <<fb_content, fb_separators, fb_chunk_size, fb_chunk_overlap>>
    /\ UNCHANGED <<idxVars, embVars, srchVars, chunkVars, rowsVars, fwVars, apiVars, scanVars, fmtVars, rdVars>>

\* lines 401-408: one iteration of the window loop
FbWindow ==
    /\ fbpc = "running"
    /\ Top.at = "window"
    /\ IF Top.idx < Len(Top.text)
       THEN LET end == Min(Len(Top.text), Top.idx + fb_chunk_size) IN
            /\ fb_spans' = fb_spans \o SpanIfText(Top.text, Top.off, Top.idx, end)
            /\ IF end >= Len(Top.text)
               THEN Return(Outer)
               ELSE /\ fb_stack' = Outer \o
                        <<[Top EXCEPT !.idx = Top.idx +
                                          WindowStep(fb_chunk_size, fb_chunk_overlap)]>>
                    /\ UNCHANGED fbpc
       ELSE /\ Return(Outer)
            /\ UNCHANGED fb_spans
    /\ UNCHANGED <<fb_content, fb_separators, fb_chunk_size, fb_chunk_overlap>>
    /\ UNCHANGED <<idxVars, embVars, srchVars, chunkVars, rowsVars, fwVars, apiVars, scanVars, fmtVars, rdVars>>

\* lines 424-447: one iteration of `for p_start, p_end in pieces`, or the
\* last flush when the loop ends
FbMerge ==
    /\ fbpc = "running"
    /\ Top.at = "merge"
    /\ LET flushed == IF Top.cur_end > Top.cur_start
                      THEN SpanIfText(Top.text, Top.off, Top.cur_start, Top.cur_end)
                      ELSE <<>>
       IN
       IF Top.n > Len(Top.pieces)
       THEN /\ fb_spans' = fb_spans \o flushed
            /\ Return(Outer)
       ELSE LET p_start == Top.pieces[Top.n][1]
                p_end == Top.pieces[Top.n][2]
                overlap_start == OverlapStart(Top.cur_start, Top.cur_end, fb_chunk_overlap)
            IN
            IF (p_end - Top.cur_start) <= fb_chunk_size
            THEN /\ fb_stack' = Outer \o
                        <<[Top EXCEPT !.cur_end = p_end, !.n = Top.n + 1]>>
                 /\ UNCHANGED <<fb_spans, fbpc>>
            ELSE /\ fb_spans' = fb_spans \o flushed
                 /\ UNCHANGED fbpc
                 /\ IF (p_end - overlap_start) <= fb_chunk_size
                    THEN fb_stack' = Outer \o
                            <<[Top EXCEPT !.cur_start = overlap_start, !.cur_end = p_end,
                                          !.n = Top.n + 1]>>
                    ELSE fb_stack' = Outer \o
                            <<[Top EXCEPT !.cur_start = p_end, !.cur_end = p_end,
                                          !.n = Top.n + 1],
                              Frame(PySlice(Top.text, p_start, p_end), Top.off + p_start,
                                    SepsAfter(Top.seps, Top.seps[Top.k]))>>
    /\ UNCHANGED <<fb_content, fb_separators, fb_chunk_size, fb_chunk_overlap>>
    /\ UNCHANGED <<idxVars, embVars, srchVars, chunkVars, rowsVars, fwVars, apiVars, scanVars, fmtVars, rdVars>>

\* line 450 has returned: the caller has nothing left to do
FbTailReturn ==
    /\ fbpc = "running"
    /\ Top.at = "tail"
    /\ Return(Outer)
    /\ UNCHANGED fb_spans
    /\ UNCHANGED <<fb_content, fb_separators, fb_chunk_size, fb_chunk_overlap>>
    /\ UNCHANGED <<idxVars, embVars, srchVars, chunkVars, rowsVars, fwVars, apiVars, scanVars, fmtVars, rdVars>>

FbStepNext ==
    \/ FbCall
    \/ FbEnter
    \/ FbForSep
    \/ FbWindow
    \/ FbMerge
    \/ FbTailReturn

InitFbSteps == IdxInit /\ EmbIdle /\ SrchIdle /\ ChunkIdle /\ RowsIdle /\ FwIdle /\ ApiIdle /\ ScanIdle /\ FbStepsInit /\ FmtIdle /\ RdIdle

\* the interpreter runs the call until it returns
SpecFallbackSteps == InitFbSteps /\ [][FbStepNext]_vars /\ WF_vars(FbStepNext)

\* C29: the fallback splitter terminates for every content, every separator
\* list and every integer chunk_size and chunk_overlap, chunk_overlap >=
\* chunk_size and chunk_size <= 0 included.
C29_Terminates == <>(fbpc = "returned")

\* a call with chunk_size <= 0 and chunk_overlap >= chunk_size that recursed
\* and went through the window loop has returned
C29_Witness ==
    /\ fbpc = "returned"
    /\ fb_chunk_size <= 0
    /\ fb_chunk_overlap > 0
    /\ fb_separators = get_separators_for_file(".py")
    /\ Len(fb_content) = MaxLen
    /\ \E m \in 1..Len(fb_content) : fb_content[m] = "\n"
    /\ fb_spans # <<>>

\* framework n of the table has the highest score, and no framework before
\* it in the table has the same score
FirstOfHighest(n) ==
    \A m \in 1..Len(Frameworks) :
        /\ fwScores[Frameworks[m]] <= fwScores[Frameworks[n]]
        /\ (fwScores[Frameworks[m]] = fwScores[Frameworks[n]]) => n <= m

\* C24: the detector returns None exactly when every framework scores 0, and
\* otherwise the first framework of the table among those of the highest
\* score; for a fixed file set the scores and the framework returned are the
\* same on every run.
C24_FrameworkFromScores ==
    (fpc = "returned") =>
        /\ (framework = "None") <=> (\A fw \in FrameworkNames : fwScores[fw] = 0)
        /\ (framework # "None") =>
              \E n \in 1..Len(Frameworks) : Frameworks[n] = framework /\ FirstOfHighest(n)
        /\ (fwRuns >= 2) => (fwScores = prevFw.scores /\ framework = prevFw.framework)

\* the second detection over a repository of at most FilesPerLanguage code
\* files returned a framework that tied with another
C24_Witness ==
    /\ fpc = "returned"
    /\ fwRuns = 2
    /\ Len(repo.code) <= FilesPerLanguage
    /\ framework # "None"
    /\ \E fw \in FrameworkNames \ {framework} : fwScores[fw] = fwScores[framework]

\* the path begins with exactly the characters of the prefix
StartsWith(path, prefix) ==
    Len(path) >= Len(prefix) /\ SubSeq(path, 1, Len(prefix)) = prefix

\* the rows of the searched project whose path begins with the prefix
WithPrefix ==
    {n \in 1..Len(store) :
        /\ store[n].project_id = search.project_id
        /\ StartsWith(store[n].path, search.path_prefix)}

\* C25: a search with a path prefix returns only rows whose path begins with
\* exactly that prefix, '_' and '%' taken literally, and returns the k
\* nearest of the rows of the project whose path has that prefix.
C25_PrefixLiteral ==
    (spc = "returned" /\ search.path_prefix # <<>>) =>
        /\ \A m \in 1..Len(found) : found[m].id \in WithPrefix
        /\ Len(found) = Min(search.k, Cardinality(WithPrefix))
        /\ \A n \in WithPrefix :
              (\A m \in 1..Len(found) : found[m].id # n) =>
                  \A m \in 1..Len(found) :
                      L2Distance(store[n].embedding, search.qvec) >= found[m].score

\* a search with the prefix "a_" over rows in a_b and in axb returned a row
C25_Witness ==
    /\ spc = "returned"
    /\ search.path_prefix = <<"a", "_">>
    /\ found # <<>>
    /\ \E n \in Matching(store, search) : store[n].path = <<"a", "x", "b">>
    /\ \E n \in Matching(store, search) : store[n].path = <<"a", "_", "b">>

(***************************************************************************)
(* format_chunks_for_prompt (vector_store.py): the context string built    *)
(* from a list of chunk rows.  A string is the sequence of its characters; *)
(* an Optional[int] is <<>> for None and <<n>> for the integer n.          *)
(***************************************************************************)
MaxFmtChunks == 3
MaxPromptChars == 80

DigitChars == <<"0", "1", "2", "3", "4", "5", "6", "7", "8", "9">>

\* str(n) of a natural number
RECURSIVE Decimal(_)
Decimal(n) ==
    IF n < 10 THEN <<DigitChars[n + 1]>>
    ELSE Decimal(n \div 10) \o <<DigitChars[(n % 10) + 1]>>

\* f"{score:.4f}" of a score that is a whole number
Fixed4(score) == Decimal(score) \o <<".", "0", "0", "0", "0">>

\* loc: the path, followed by ":start-end" when both lines are known
Loc(c) ==
    IF c.start_line # <<>> /\ c.end_line # <<>>
    THEN c.path \o <<":">> \o Decimal(c.start_line[1]) \o <<"-">>
                \o Decimal(c.end_line[1])
    ELSE c.path

\* block = f"=== {loc} (dist={c.score:.4f}) ===\n{c.content}\n"
Block(c) ==
    <<"=", "=", "=", " ">> \o Loc(c) \o <<" ", "(", "d", "i", "s", "t", "=">>
        \o Fixed4(c.score) \o <<")", " ", "=", "=", "=", "\n">>
        \o c.content \o <<"\n">>

\* used + len(block) > max_chars and parts
OverBudget(used, block, max_chars, taken) ==
    used + Len(block) > max_chars /\ taken # <<>>

\* the loop over the chunks: the blocks taken before the break
RECURSIVE TakeBlocks(_, _, _, _)
TakeBlocks(cs, taken, used, max_chars) ==
    IF cs = <<>> THEN taken
    ELSE LET block == Block(Head(cs))
         IN  IF OverBudget(used, block, max_chars, taken) THEN taken
             ELSE TakeBlocks(Tail(cs), Append(taken, block),
                             used + Len(block), max_chars)

\* sep.join(blocks)
RECURSIVE Join(_, _)
Join(blocks, sep) ==
    IF blocks = <<>> THEN <<>>
    ELSE IF Len(blocks) = 1 THEN blocks[1]
    ELSE blocks[1] \o sep \o Join(Tail(blocks), sep)

format_chunks_for_prompt(cs, max_chars) ==
    Strip(Join(TakeBlocks(cs, <<>>, 0, max_chars), <<"\n">>))

\* the chunk rows given: one path, with and without line numbers, content
\* with and without whitespace at its end
FmtContents == {<<>>, <<"x">>, <<"x", "\n">>}
FmtLines == {<< <<>>, <<>> >>, << <<1>>, <<>> >>, << <<1>>, <<2>> >>}
FmtRows ==
    {[path |-> <<"a">>, start_line |-> l[1], end_line |-> l[2],
      content |-> t, score |-> 0] : l \in FmtLines, t \in FmtContents}

FmtInit ==
    /\ fmt_chunks \in SeqsUpTo(FmtRows, MaxFmtChunks)
    /\ fmt_max_chars \in 0..MaxPromptChars
    /\ fmt_out = <<>>
    /\ fmtpc = "called"

FormatChunks ==
    /\ fmtpc = "called"
    /\ fmt_out' = format_chunks_for_prompt(fmt_chunks, fmt_max_chars)
    /\ fmtpc' = "returned"
    /\ UNCHANGED <<fmt_chunks, fmt_max_chars>>
    /\ UNCHANGED <<idxVars, embVars, srchVars, chunkVars, rowsVars, fwVars, apiVars, scanVars, fbVars, rdVars>>

FmtNext == FormatChunks

InitFmt == IdxInit /\ EmbIdle /\ SrchIdle /\ ChunkIdle /\ RowsIdle /\ FwIdle /\ ApiIdle /\ ScanIdle /\ FbIdle /\ FmtInit /\ RdIdle

SpecFmt == InitFmt /\ [][FmtNext]_vars

\* C26: for every list of chunks and every max_chars >= 0 the string
\* returned by format_chunks_for_prompt has at most max_chars characters.
C26_WithinMaxChars ==
    (fmtpc = "returned" /\ fmt_max_chars >= 0) => Len(fmt_out) <= fmt_max_chars

\* the first block alone is longer than max_chars and is returned
C26_Witness ==
    /\ fmtpc = "returned"
    /\ Len(fmt_chunks) = 1
    /\ Len(fmt_out) > fmt_max_chars

(***************************************************************************)
(* A search of another request while a run is going on.  The request has   *)
(* its own Session (get_db), and Postgres runs its SELECT read-committed:  *)
(* it sees the committed rows, never what the run's transaction has        *)
(* pending.                                                                *)
(***************************************************************************)
\* a SELECT that would see the pending changes of the run's transaction
ReadUncommitted(c, w, p) == RowsOf(w, p)

\* vector_search_project lines 818-830: the rows of project p that a SELECT
\* on another Session sees, c the committed table, w the table as the run's
\* transaction has it
ReadCommitted(c, w, p) == RowsOf(c, p)

\* vector_search_project called for project p during the current run
ConcurrentSearch ==
    /\ pc # "idle"
    /\ \E p \in Projects :
        reader' = [pid |-> p, rows |-> ReadCommitted(committed, work, p),
                   run |-> runs, pending |-> (work # committed)]
    /\ UNCHANGED <<idxVars, embVars, srchVars, chunkVars, rowsVars, fwVars, apiVars, scanVars, fbVars, fmtVars>>

NextReader == Next \/ ConcurrentSearch

SpecReader == Init /\ [][NextReader]_vars

\* the search was made during the current run, for the run's project
ReadInRun == reader.run = runs /\ reader.pid = cur.pid

\* C27: in a successful reindex the delete of the old rows and the insert of
\* the new rows are committed together: a search on another session during
\* the run saw either the complete prior rows of the project or the
\* complete new rows, never an empty set or a mix of the two.
C27_ReaderSeesOneGeneration ==
    (RunSucceeded /\ chunks # {} /\ ReadInRun) =>
        reader.rows \in {prior, chunks}

\* a search made between the delete and the commit of a reindex that
\* replaced rows saw the prior rows
C27_Witness ==
    /\ RunSucceeded
    /\ ReadInRun
    /\ reader.pending
    /\ prior # {}
    /\ chunks # {}
    /\ reader.rows = prior
    /\ RowsOf(committed, cur.pid) = chunks

(***************************************************************************)
(* Runs and searches over a table that already holds rows of both          *)
(* projects, stored by earlier runs of scripts/reindex_pgvector.py (which  *)
(* leave preprocessing_status as it was).                                  *)
(***************************************************************************)
\* the rows that earlier runs over the files f[p] of each project p left
StoredBefore(f) == UNION {BuildRows(p, f[p], 0) : p \in Projects}

IdxStored ==
    /\ \E f \in [Projects -> FileLists] : committed = StoredBefore(f)
    /\ work = committed
    /\ aborted = FALSE
    /\ status = [p \in Projects |-> "processing"]
    /\ sink = {}
    /\ pc = "idle"
    /\ cur = NoRun
    /\ runs = 0
    /\ result = "none"
    /\ chunks = {}
    /\ errored = ""
    /\ errorEmitted = FALSE
    /\ stored = FALSE
    /\ prior = {}
    /\ failedRuns = {}
    /\ prevSame = FALSE
    /\ prevFailed = FALSE
    /\ prevBefore = {}

InitStored == IdxStored /\ EmbIdle /\ SrchIdle /\ ChunkIdle /\ RowsIdle /\ FwIdle /\ ApiIdle /\ ScanIdle /\ FbIdle /\ FmtIdle /\ RdIdle

SpecStored == InitStored /\ [][NextReader]_vars

\* the rows of the projects other than p in table t
RowsOfOthers(t, p) == {r \in t : r.pid # p}

\* C30: operations on one project never touch the chunks of another: no
\* step of a reindex of project P changes the chunk rows of another project,
\* committed or in the run's transaction, and a search for P returns only
\* rows whose project_id is P.
C30_OtherProjectsUntouched ==
    [][/\ RowsOfOthers(committed', cur'.pid) = RowsOfOthers(committed, cur'.pid)
       /\ RowsOfOthers(work', cur'.pid) = RowsOfOthers(work, cur'.pid)
       /\ \A r \in reader'.rows : r.pid = reader'.pid]_vars

\* a reindex replaced the rows of its project while the other project still
\* holds the rows it had, and a search of the other project returned them
C30_Witness ==
    /\ RunSucceeded
    /\ prior # {}
    /\ chunks # {}
    /\ RowsOf(committed, cur.pid) = chunks
    /\ RowsOfOthers(committed, cur.pid) # {}
    /\ reader.run = runs
    /\ reader.pid # cur.pid
    /\ reader.rows = RowsOfOthers(committed, cur.pid)

=============================================================================
